---- MODULE Spec2Model ----
(***************************************************************************)
(* A model of the mafia-game server core: the client registry             *)
(* (mafia-game-server-lib/src/client.rs), the game engine (game.rs) and    *)
(* the server facade (lib.rs).                                             *)
(*                                                                         *)
(* Option<T> is modelled as a sequence of length at most one: None is <<>> *)
(* and Some(x) is <<x>>.  A HashMap is a function whose DOMAIN is the key  *)
(* set.  SystemTime::now() is the clock variable now, in whole seconds.    *)
(* SessionToken::new() (a fresh v4 UUID) is the counter next_token.        *)
(***************************************************************************)
EXTENDS Integers, Sequences, FiniteSets, TLC

VARIABLES
    clients,        \* MafiaGameServerInner.clients : ClientState
    active_game,    \* MafiaGameServerInner.active_game : Option<Game>
    config,         \* MafiaGameServerInner.config : MafiaGameServerConfig
    now,            \* the wall clock read by SystemTime::now()
    next_token,     \* the next value SessionToken::new() returns
    poisoned,       \* a panic was hit (with the write lock held, the RwLock is poisoned)
    hist            \* history (ghost) facts about the run, read by the properties only

vars == <<clients, active_game, config, now, next_token, poisoned, hist>>

(***************************************************************************)
(* Bounds of the model.                                                    *)
(***************************************************************************)
\* Size of the id pool explored (the program's MAX_PLAYERS is 64).
MAX_PLAYERS == 4
\* Number of distinct client names offered to connect.
NumNames == 4
\* Number of session tokens SessionToken::new() may hand out in one run.
MaxTokens == 4
\* Last instant of the clock.
MaxTime == 1
\* An operation that sends events runs only while every inbox holds at most
\* this many undrained events.
MaxInbox == 0

Names == 1..NumNames
Ids == 0..(MAX_PLAYERS - 1)
Tokens == 0..(MaxTokens - 1)

None == << >>
Some(x) == <<x>>
IsSome(o) == o /= << >>
Unwrap(o) == o[1]

\* The targets of a vote: a skip or a client id.
Targets == {None} \cup {Some(p) : p \in Ids}

\* Duration since `earlier`, as SystemTime::duration_since(..).unwrap_or(0).
DurationSince(t, earlier) == IF t >= earlier THEN t - earlier ELSE 0

\* A HashMap without the keys in ks.
MapRemove(m, ks) == [k \in (DOMAIN m) \ ks |-> m[k]]
\* HashMap::insert(k, v).
MapInsert(m, k, v) == [x \in (DOMAIN m) \cup {k} |-> IF x = k THEN v ELSE m[x]]

Min(S) == CHOOSE x \in S : \A y \in S : x <= y

(***************************************************************************)
(* Client registry: client.rs                                              *)
(***************************************************************************)
\* ClientState::new
ClientStateNew ==
    [clients |-> << >>,
     client_name_to_id |-> << >>,
     session_token_to_id |-> << >>,
     claimed_ids |-> {}]

\* The return values of the registry and facade operations.
Ok(id, tok) == [res |-> "Ok", id |-> id, token |-> tok]
Err(kind) == [res |-> kind, id |-> None, token |-> None]
ErrId(kind, id) == [res |-> kind, id |-> Some(id), token |-> None]
Panic == [res |-> "Panic", id |-> None, token |-> None]

\* ClientState::connect_client, the branch for a name held by a disconnected
\* client: the record gets the new token, the token index is left as it is.
connect_client_reconnect(cs, id, tok, t) ==
    [cs EXCEPT !.clients[id].session_token = tok,
               !.clients[id].last_active = t,
               !.clients[id].disconnected = FALSE]

\* ClientState::connect_client, the branch for a name not in the name map.
connect_client_new(cs, name, id, tok, t) ==
    [clients |-> MapInsert(cs.clients, id,
                    [inbox |-> << >>,
                     info |-> [name |-> name, id |-> id],
                     session_token |-> tok,
                     last_active |-> t,
                     disconnected |-> FALSE]),
     client_name_to_id |-> MapInsert(cs.client_name_to_id, name, id),
     session_token_to_id |-> MapInsert(cs.session_token_to_id, tok, id),
     claimed_ids |-> cs.claimed_ids \cup {id}]

\* A connect_client that assigns the highest free id.
connect_client_highest(cs, name, tok, t) ==
    IF name \in DOMAIN cs.client_name_to_id
    THEN LET existing == cs.client_name_to_id[name] IN
         IF existing \notin DOMAIN cs.clients
         THEN [cs |-> cs, ret |-> Panic]
         ELSE IF ~cs.clients[existing].disconnected
         THEN [cs |-> cs, ret |-> Err("ClientNameRegistered")]
         ELSE [cs |-> connect_client_reconnect(cs, existing, tok, t),
               ret |-> Ok(Some(existing), Some(tok))]
    ELSE IF Ids \ cs.claimed_ids = {}
    THEN [cs |-> cs, ret |-> Err("TooManyClientsRegistered")]
    ELSE LET id == CHOOSE x \in Ids \ cs.claimed_ids :
                        \A y \in Ids \ cs.claimed_ids : y <= x IN
         [cs |-> connect_client_new(cs, name, id, tok, t),
          ret |-> Ok(Some(id), Some(tok))]

\* A connect_client that treats the name of a disconnected client as new.
connect_client_fresh(cs, name, tok, t) ==
    IF /\ name \in DOMAIN cs.client_name_to_id
       /\ cs.client_name_to_id[name] \in DOMAIN cs.clients
       /\ ~cs.clients[cs.client_name_to_id[name]].disconnected
    THEN [cs |-> cs, ret |-> Err("ClientNameRegistered")]
    ELSE IF Ids \ cs.claimed_ids = {}
    THEN [cs |-> cs, ret |-> Err("TooManyClientsRegistered")]
    ELSE LET id == Min(Ids \ cs.claimed_ids) IN
         [cs |-> connect_client_new(cs, name, id, tok, t),
          ret |-> Ok(Some(id), Some(tok))]

\* ClientState::connect_client: the new registry and the value returned.
\* tok is the token SessionToken::new() yields if the call gets that far.
connect_client(cs, name, tok, t) ==
    IF name \in DOMAIN cs.client_name_to_id
    THEN LET existing == cs.client_name_to_id[name] IN
         IF existing \notin DOMAIN cs.clients
         THEN [cs |-> cs, ret |-> Panic]
         ELSE IF ~cs.clients[existing].disconnected
         THEN [cs |-> cs, ret |-> Err("ClientNameRegistered")]
         ELSE [cs |-> connect_client_reconnect(cs, existing, tok, t),
               ret |-> Ok(Some(existing), Some(tok))]
    ELSE IF Ids \ cs.claimed_ids = {}
    THEN [cs |-> cs, ret |-> Err("TooManyClientsRegistered")]
    ELSE LET id == Min(Ids \ cs.claimed_ids) IN
         [cs |-> connect_client_new(cs, name, id, tok, t),
          ret |-> Ok(Some(id), Some(tok))]

\* A disconnect_client that leaves the inbox as it is.
disconnect_client_keep(cs, id) ==
    IF id \notin DOMAIN cs.clients
    THEN [cs |-> cs, ret |-> ErrId("InvalidClientId", id)]
    ELSE IF cs.clients[id].disconnected
    THEN [cs |-> cs, ret |-> ErrId("ClientDisconnected", id)]
    ELSE [cs |-> [cs EXCEPT !.clients[id].disconnected = TRUE],
          ret |-> Ok(None, None)]

\* ClientState::disconnect_client
disconnect_client(cs, id) ==
    IF id \notin DOMAIN cs.clients
    THEN [cs |-> cs, ret |-> ErrId("InvalidClientId", id)]
    ELSE IF cs.clients[id].disconnected
    THEN [cs |-> cs, ret |-> ErrId("ClientDisconnected", id)]
    ELSE [cs |-> [cs EXCEPT !.clients[id].disconnected = TRUE,
                            !.clients[id].inbox = << >>],
          ret |-> Ok(None, None)]

\* A purge that evicts only the clients marked disconnected.
purge_candidates_flagged(cs, max_inactive_time, t) ==
    {id \in DOMAIN cs.clients : cs.clients[id].disconnected}

\* The clients purge_disconnected_clients evicts: disconnected, or inactive
\* for at least max_inactive_time.
purge_candidates(cs, max_inactive_time, t) ==
    {id \in DOMAIN cs.clients :
        \/ cs.clients[id].disconnected
        \/ DurationSince(t, cs.clients[id].last_active) >= max_inactive_time}

\* A purge that returns every client it evicts.
purge_disconnected_clients_all(cs, max_inactive_time, t) ==
    LET gone == purge_candidates(cs, max_inactive_time, t) IN
    [cs |-> [clients |-> MapRemove(cs.clients, gone),
             client_name_to_id |->
                MapRemove(cs.client_name_to_id,
                          {cs.clients[id].info.name : id \in gone}),
             session_token_to_id |->
                MapRemove(cs.session_token_to_id,
                          {cs.clients[id].session_token : id \in gone}),
             claimed_ids |-> cs.claimed_ids \ gone],
     ret |-> gone]

\* ClientState::purge_disconnected_clients: the new registry and the set of
\* evicted clients that were not marked disconnected.
purge_disconnected_clients(cs, max_inactive_time, t) ==
    LET gone == purge_candidates(cs, max_inactive_time, t) IN
    [cs |-> [clients |-> MapRemove(cs.clients, gone),
             client_name_to_id |->
                MapRemove(cs.client_name_to_id,
                          {cs.clients[id].info.name : id \in gone}),
             session_token_to_id |->
                MapRemove(cs.session_token_to_id,
                          {cs.clients[id].session_token : id \in gone}),
             claimed_ids |-> cs.claimed_ids \ gone],
     ret |-> {id \in gone : ~cs.clients[id].disconnected}]

\* ClientState::auth_client: the value returned.
auth_client_ret(cs, tok) ==
    IF tok \notin DOMAIN cs.session_token_to_id
    THEN Err("InvalidSessionToken")
    ELSE LET id == cs.session_token_to_id[tok] IN
         IF id \notin DOMAIN cs.clients
         THEN Panic
         ELSE IF cs.clients[id].disconnected
         THEN ErrId("ClientDisconnected", id)
         ELSE Ok(Some(id), None)

\* ClientState::auth_client: the registry afterwards (last_active refreshed
\* on success).
auth_client_cs(cs, tok, t) ==
    IF auth_client_ret(cs, tok).res = "Ok"
    THEN [cs EXCEPT !.clients[cs.session_token_to_id[tok]].last_active = t]
    ELSE cs

\* ClientState::all_client_ids
all_client_ids(cs) == cs.claimed_ids

\* A send_event that puts the event at the front of the inbox.
send_event_front(cs, to, event) ==
    [cs EXCEPT !.clients =
        [id \in DOMAIN cs.clients |->
            IF id \in to /\ ~cs.clients[id].disconnected
            THEN [cs.clients[id] EXCEPT !.inbox = <<event>> \o @]
            ELSE cs.clients[id]]]

\* ClientState::send_event: both loops append to the inbox of every present,
\* not disconnected client of `to`.
send_event(cs, to, event) ==
    [cs EXCEPT !.clients =
        [id \in DOMAIN cs.clients |->
            IF id \in to /\ ~cs.clients[id].disconnected
            THEN [cs.clients[id] EXCEPT !.inbox = Append(@, event)]
            ELSE cs.clients[id]]]

\* ClientState::take_events: the events returned.
take_events_ret(cs, id) ==
    IF id \in DOMAIN cs.clients THEN cs.clients[id].inbox ELSE << >>

\* ClientState::take_events: the registry afterwards.
take_events_cs(cs, id) ==
    IF id \in DOMAIN cs.clients
    THEN [cs EXCEPT !.clients[id].inbox = << >>]
    ELSE cs

(***************************************************************************)
(* Shared data: mafia-game-lib/src/lib.rs                                  *)
(***************************************************************************)
\* SpecialRole, in the order of the enum (the derived Ord).
RoleOrder == <<"Mafia", "Doctor", "Detective">>
Roles == {"Mafia", "Doctor", "Detective"}

\* SpecialRole::allegiance
allegiance(role) == IF role = "Mafia" THEN "Mafia" ELSE "Villagers"

\* Cycle::next
cycle_next(cycle) == IF cycle = "Night" THEN "Day" ELSE "Night"

(***************************************************************************)
(* Game engine: game.rs                                                    *)
(***************************************************************************)
\* The end of the game forced by end_cycle once day_num reaches this.
MaxDayNum == 100

\* Sum of the values of config.num_special_roles.
total_special_roles(cfg) ==
    cfg.num_special_roles["Mafia"] + cfg.num_special_roles["Doctor"]
        + cfg.num_special_roles["Detective"]

\* A validation that does not compare the Mafia with the number of clients.
start_check_lax(cfg, num_clients) ==
    IF cfg.num_special_roles["Mafia"] = 0 THEN "InvalidGameConfig"
    ELSE IF total_special_roles(cfg) > num_clients THEN "NotEnoughPlayers"
    ELSE "Ok"

\* Game::start, the validation: "Ok" or the error returned.
start_check(cfg, num_clients) ==
    IF cfg.num_special_roles["Mafia"] = 0 THEN "InvalidGameConfig"
    ELSE IF cfg.num_special_roles["Mafia"] * 2 >= num_clients THEN "NotEnoughPlayers"
    ELSE IF total_special_roles(cfg) > num_clients THEN "NotEnoughPlayers"
    ELSE "Ok"

\* An assignment that hands every role out from the head of the shuffle.
role_slice_head(cfg, shuffled, k) ==
    SubSeq(shuffled, 1, cfg.num_special_roles[RoleOrder[k]])

\* Game::start, the assignment loop: the players given role number k of
\* RoleOrder are the next num_special_roles[role] entries of the shuffled list.
role_slice(cfg, shuffled, k) ==
    LET before == IF k = 1 THEN 0
                  ELSE IF k = 2 THEN cfg.num_special_roles[RoleOrder[1]]
                  ELSE cfg.num_special_roles[RoleOrder[1]] + cfg.num_special_roles[RoleOrder[2]]
    IN SubSeq(shuffled, before + 1, before + cfg.num_special_roles[RoleOrder[k]])

SeqRange(q) == {q[i] : i \in DOMAIN q}

\* Game::start after a successful validation; shuffled is the shuffled list of
\* the ids of the name map.
start(cfg, shuffled, t) ==
    LET r2p == [role \in Roles |->
                    role_slice(cfg, shuffled, CHOOSE k \in 1..3 : RoleOrder[k] = role)]
        assigned == UNION {SeqRange(r2p[role]) : role \in Roles}
    IN [config |-> cfg,
        role_to_players |-> r2p,
        player_to_role |->
            [p \in assigned |-> CHOOSE role \in Roles : p \in SeqRange(r2p[role])],
        player_status |-> [p \in SeqRange(shuffled) |-> "Alive"],
        cycle |-> cfg.start_cycle,
        day_num |-> 1,
        cycle_start |-> t,
        votes |-> << >>,
        winner |-> None]

\* Game::get_player_status
get_player_status(g, id) ==
    IF id \in DOMAIN g.player_status THEN Some(g.player_status[id]) ELSE None

\* Game::get_player_role
get_player_role(g, id) ==
    IF id \in DOMAIN g.player_to_role THEN Some(g.player_to_role[id]) ELSE None

\* Game::get_player_allegiance
get_player_allegiance(g, id) ==
    IF id \in DOMAIN g.player_to_role THEN allegiance(g.player_to_role[id]) ELSE "Villagers"

\* Game::get_players(is_alive)
alive_players(g) == {p \in DOMAIN g.player_status : g.player_status[p] = "Alive"}

\* Game::get_players(is_alive_and_mafia)
alive_mafia(g) == {p \in alive_players(g) : get_player_allegiance(g, p) = "Mafia"}

\* Game::get_players(|st, role, _| st == Alive && role.is_some())
alive_special(g) == {p \in alive_players(g) : p \in DOMAIN g.player_to_role}

\* Game::get_players(|st, _, allegiance| st == Alive && allegiance == Villagers)
alive_villagers(g) == {p \in alive_players(g) : get_player_allegiance(g, p) = "Villagers"}

\* Game::get_cycle_duration
get_cycle_duration(g) ==
    IF g.cycle = "Day" THEN g.config.time_for_day ELSE g.config.time_for_night

\* The fold of end_cycle: how many of the given voters voted for target.
votes_for(g, voters, target) ==
    Cardinality({v \in voters \cap DOMAIN g.votes : g.votes[v] = Some(target)})

\* A tally that lets a target through with half the votes.
kill_candidates_weak(g) ==
    IF g.cycle = "Day"
    THEN {p \in DOMAIN g.player_status :
                votes_for(g, DOMAIN g.votes, p) * 2 >= Cardinality(alive_players(g))
                /\ votes_for(g, DOMAIN g.votes, p) > 0}
    ELSE LET mafia_voters == {v \in DOMAIN g.votes : get_player_allegiance(g, v) = "Mafia"}
         IN {p \in DOMAIN g.player_status :
                votes_for(g, mafia_voters, p) * 2 >= Cardinality(alive_mafia(g))
                /\ votes_for(g, mafia_voters, p) > 0}

\* The targets the `find` of end_cycle may return: by day the players with a
\* strict majority of the alive players, by night those with a strict
\* majority of the alive mafia among the votes of mafia voters.
kill_candidates(g) ==
    IF g.cycle = "Day"
    THEN {p \in DOMAIN g.player_status :
                votes_for(g, DOMAIN g.votes, p) * 2 > Cardinality(alive_players(g))
                /\ votes_for(g, DOMAIN g.votes, p) > 0}
    ELSE LET mafia_voters == {v \in DOMAIN g.votes : get_player_allegiance(g, v) = "Mafia"}
         IN {p \in DOMAIN g.player_status :
                votes_for(g, mafia_voters, p) * 2 > Cardinality(alive_mafia(g))
                /\ votes_for(g, mafia_voters, p) > 0}

\* What `find` returns: one of the candidates (the HashMap's iteration order
\* decides which), or None.
find_picks(g) ==
    IF kill_candidates(g) = {} THEN {None} ELSE {Some(p) : p \in kill_candidates(g)}

\* A night in which the doctors protect nobody.
protected_none(g) == {}

\* end_cycle, night: the targets of the doctors' votes.
protected_players(g) ==
    {g.votes[d][1] : d \in {x \in SeqRange(g.role_to_players["Doctor"]) :
                                x \in DOMAIN g.votes /\ IsSome(g.votes[x])}}

\* end_cycle, the first part: the death or the failed vote.  pick is what
\* `find` returned.  Yields the player statuses and the events pushed.
resolve_votes(g, pick) ==
    IF g.cycle = "Day"
    THEN IF IsSome(pick)
         THEN [status |-> [g.player_status EXCEPT ![Unwrap(pick)] = "Dead"],
               events |-> <<[type |-> "PlayerKilled", player |-> Unwrap(pick),
                             cycle |-> g.cycle, death_message |-> 0]>>]
         ELSE [status |-> g.player_status,
               events |-> <<[type |-> "FailedVote", cycle |-> g.cycle,
                             channel |-> "Public"]>>]
    ELSE IF IsSome(pick)
         THEN IF Unwrap(pick) \notin protected_players(g)
              THEN [status |-> [g.player_status EXCEPT ![Unwrap(pick)] = "Dead"],
                    events |-> <<[type |-> "PlayerKilled", player |-> Unwrap(pick),
                                  cycle |-> g.cycle, death_message |-> 0]>>]
              ELSE [status |-> g.player_status, events |-> << >>]
         ELSE [status |-> g.player_status,
               events |-> <<[type |-> "FailedVote", cycle |-> g.cycle,
                             channel |-> "Mafia"]>>]

\* end_cycle, night: the PlayerInvestigated events, one per entry of
\* role_to_players[Detective] (in the order of that Vec) whose vote names a
\* target.
RECURSIVE investigations(_, _)
investigations(g, detectives) ==
    IF detectives = << >> THEN << >>
    ELSE LET d == Head(detectives)
             rest == investigations(g, Tail(detectives))
         IN IF d \in DOMAIN g.votes /\ IsSome(g.votes[d])
            THEN <<[type |-> "PlayerInvestigated", actor |-> d,
                    target |-> Unwrap(g.votes[d]),
                    allegiance |-> get_player_allegiance(g, Unwrap(g.votes[d]))]>> \o rest
            ELSE rest

\* A GameWon that names the roles of the surviving players only.
GameWon_alive(g, side) ==
    [type |-> "GameWon",
     player_to_role |-> [p \in DOMAIN g.player_to_role \cap alive_players(g) |->
                            g.player_to_role[p]],
     side |-> side]

GameWon(g, side) ==
    [type |-> "GameWon", player_to_role |-> g.player_to_role, side |-> side]

\* A transition that keeps the votes of the cycle that ended.
advance_cycle_keep(g) ==
    LET c == cycle_next(g.cycle) IN
    [g EXCEPT !.cycle = c,
              !.day_num = IF c = "Day" THEN g.day_num + 1 ELSE g.day_num]

\* A transition that counts a day at every cycle.
advance_cycle_daily(g) ==
    [g EXCEPT !.votes = << >>,
              !.cycle = cycle_next(g.cycle),
              !.day_num = g.day_num + 1]

\* end_cycle, the last part: the cycle advances.
advance_cycle(g) ==
    LET c == cycle_next(g.cycle) IN
    [g EXCEPT !.votes = << >>,
              !.cycle = c,
              !.day_num = IF c = "Day" THEN g.day_num + 1 ELSE g.day_num]

\* Game::end_cycle: the game afterwards and the events returned.  pick is
\* what `find` returned; t is the clock.
end_cycle(g, pick, t) ==
    IF IsSome(g.winner) THEN [game |-> g, events |-> << >>]
    ELSE
    LET res == resolve_votes(g, pick)
        g1 == [g EXCEPT !.player_status = res.status]
        ev == res.events \o
              (IF g.cycle = "Night"
               THEN investigations(g1, g1.role_to_players["Detective"])
               ELSE << >>)
    IN  IF alive_mafia(g1) = {}
        THEN [game |-> [g1 EXCEPT !.winner = Some("Villagers")],
              events |-> Append(ev, GameWon(g1, "Villagers"))]
        ELSE IF Cardinality(alive_mafia(g1)) * 2 >= Cardinality(alive_players(g1))
        THEN [game |-> [g1 EXCEPT !.winner = Some("Mafia")],
              events |-> Append(ev, GameWon(g1, "Mafia"))]
        ELSE IF g1.day_num >= MaxDayNum
        THEN [game |-> [g1 EXCEPT !.winner = Some("Mafia")],
              events |-> Append(ev, GameWon(g1, "Mafia"))]
        ELSE LET g2 == advance_cycle(g1) IN
             [game |-> g2,
              events |-> Append(ev,
                    [type |-> "SetCycle", start_time_unix_ts_secs |-> t,
                     duration_secs |-> get_cycle_duration(g2),
                     cycle |-> g2.cycle, day_num |-> g2.day_num])]

\* A cast_vote that does not look at the winner.
cast_vote_ret_won(g, voter, target, t) ==
    IF get_player_status(g, voter) /= Some("Alive") THEN "InvalidVote"
    ELSE IF IsSome(target) /\ get_player_status(g, Unwrap(target)) /= Some("Alive")
    THEN "InvalidVote"
    ELSE IF DurationSince(t, g.cycle_start) < g.config.vote_grace_period THEN "InvalidVote"
    ELSE IF g.cycle = "Night" /\ voter \notin DOMAIN g.player_to_role THEN "InvalidVote"
    ELSE "Ok"

\* Game::cast_vote: "Ok" or "InvalidVote".
cast_vote_ret(g, voter, target, t) ==
    IF IsSome(g.winner) THEN "InvalidVote"
    ELSE IF get_player_status(g, voter) /= Some("Alive") THEN "InvalidVote"
    ELSE IF IsSome(target) /\ get_player_status(g, Unwrap(target)) /= Some("Alive")
    THEN "InvalidVote"
    ELSE IF DurationSince(t, g.cycle_start) < g.config.vote_grace_period THEN "InvalidVote"
    ELSE IF g.cycle = "Night" /\ voter \notin DOMAIN g.player_to_role THEN "InvalidVote"
    ELSE "Ok"

\* A cast_vote that keeps the first vote of a voter.
cast_vote_first(g, voter, target, t) ==
    IF cast_vote_ret(g, voter, target, t) = "Ok" /\ voter \notin DOMAIN g.votes
    THEN [g EXCEPT !.votes = MapInsert(@, voter, target)]
    ELSE g

\* Game::cast_vote: the game afterwards.
cast_vote(g, voter, target, t) ==
    IF cast_vote_ret(g, voter, target, t) = "Ok"
    THEN [g EXCEPT !.votes = MapInsert(@, voter, target)]
    ELSE g

\* A poll_end_cycle that ends a cycle only once all votes are cast.
poll_ends_cycle_votes(g, t) ==
    /\ ~IsSome(g.winner)
    /\ \/ /\ g.cycle = "Day" /\ g.config.end_day_after_all_votes
          /\ Cardinality(DOMAIN g.votes) = Cardinality(alive_players(g))
       \/ /\ g.cycle = "Night" /\ g.config.end_night_after_all_votes
          /\ Cardinality(DOMAIN g.votes) = Cardinality(alive_special(g))

\* Game::poll_end_cycle: whether the cycle is ended by this call.
poll_ends_cycle(g, t) ==
    /\ ~IsSome(g.winner)
    /\ \/ DurationSince(t, g.cycle_start) > get_cycle_duration(g)
       \/ /\ g.cycle = "Day" /\ g.config.end_day_after_all_votes
          /\ Cardinality(DOMAIN g.votes) = Cardinality(alive_players(g))
       \/ /\ g.cycle = "Night" /\ g.config.end_night_after_all_votes
          /\ Cardinality(DOMAIN g.votes) = Cardinality(alive_special(g))

\* Game::poll_end_cycle: the game afterwards and the events returned.
poll_end_cycle(g, pick, t) ==
    IF poll_ends_cycle(g, t) THEN end_cycle(g, pick, t)
    ELSE [game |-> g, events |-> << >>]

(***************************************************************************)
(* Server construction, the clock and the history variable.                *)
(***************************************************************************)
\* max_client_inactive_time of the MafiaGameServerConfig explored, in seconds.
MaxInactiveTime == 1
ServerConfigs ==
    {[max_client_inactive_time |-> MaxInactiveTime, randomize_death_message |-> b] :
        b \in {TRUE}}

HistInit ==
    [rotated |-> {},       \* tokens replaced by a reconnect
     names_used |-> 0,     \* how many distinct names have connected
     cycle_began |-> 0,    \* instant the current cycle began (game start or latest transition)
     games |-> 0,          \* games started
     requests |-> 0,       \* votes accepted, chat messages sent, disconnects done
     first_day |-> 1,      \* day_num of the game when its exploration began
     voted |-> {},         \* who cast an accepted vote since the current cycle began
     resolved |-> None,    \* the latest cycle resolution: the game before, the events
     started |-> None,     \* the latest Game::start: its configuration, what it returned
     last_vote |-> << >>,  \* per voter, the target of its latest accepted vote of the cycle
     revoted |-> FALSE,    \* the latest accepted vote replaced a different vote of its voter
     refused |-> FALSE,    \* some connect was refused for lack of a free id
     \* per id, for the client registered under it: the events sent to it while
     \* it was connected, those of them not discarded by a disconnect, and
     \* the events its take_events calls returned, each in order
     sent |-> [id \in Ids |-> << >>],
     kept |-> [id \in Ids |-> << >>],
     taken |-> [id \in Ids |-> << >>]]

\* MafiaGameServer::new
Init ==
    /\ clients = ClientStateNew
    /\ active_game = None
    /\ config \in ServerConfigs
    /\ now = 0
    /\ next_token = 0
    /\ poisoned = FALSE
    /\ hist = HistInit

\* History kept on a connect: on a reconnect, the token that was replaced.
HistConnect(h, cs, name, r) ==
    IF r.ret.res /= "Ok" THEN h
    ELSE [h EXCEPT !.names_used = IF name > @ THEN name ELSE @,
                   !.rotated = IF name \in DOMAIN cs.client_name_to_id
                               THEN @ \cup {cs.clients[Unwrap(r.ret.id)].session_token}
                               ELSE @]

\* Names are opaque map keys: a run is explored with its names numbered in the
\* order of their first use (any other run is this one renamed).
OfferedNames == {name \in Names : name <= hist.names_used + 1}

\* The clock advances.
AdvanceTime ==
    /\ now < MaxTime
    /\ now' = now + 1
    /\ UNCHANGED <<clients, active_game, config, next_token, poisoned, hist>>

\* The transport polls the clients with waiting events in id order: what an
\* operation appends to the inboxes does not depend on the order of the polls.
NextToPoll(cs) ==
    LET waiting == {id \in DOMAIN cs.clients : cs.clients[id].inbox /= << >>}
    IN  IF waiting = {} THEN None ELSE Some(Min(waiting))

InboxesBelow(cs, n) == \A id \in DOMAIN cs.clients : Len(cs.clients[id].inbox) <= n

(***************************************************************************)
(* The registry on its own: ClientState driven directly, as the unit tests *)
(* of tests/client.rs drive it.                                            *)
(***************************************************************************)
\* The events the registry tests send: chat messages.
RegEvents ==
    {[type |-> "MessageReceived", channel |-> "Public", from |-> Some(0)],
     [type |-> "MessageReceived", channel |-> "Mafia", from |-> Some(1)]}

RegConnect(name) ==
    /\ ~poisoned
    /\ next_token < MaxTokens
    /\ LET r == connect_client(clients, name, next_token, now) IN
        /\ clients' = r.cs
        /\ next_token' = IF r.ret.res = "Ok" THEN next_token + 1 ELSE next_token
        /\ poisoned' = (r.ret.res = "Panic")
        /\ hist' = HistConnect(hist, clients, name, r)
    /\ UNCHANGED <<active_game, config, now>>

RegDisconnect(id) ==
    /\ ~poisoned
    /\ clients' = disconnect_client(clients, id).cs
    /\ UNCHANGED <<active_game, config, now, next_token, poisoned, hist>>

RegPurge ==
    /\ ~poisoned
    /\ clients' = purge_disconnected_clients(clients, config.max_client_inactive_time, now).cs
    /\ UNCHANGED <<active_game, config, now, next_token, poisoned, hist>>

RegAuth(tok) ==
    /\ ~poisoned
    /\ clients' = auth_client_cs(clients, tok, now)
    /\ poisoned' = (auth_client_ret(clients, tok).res = "Panic")
    /\ UNCHANGED <<active_game, config, now, next_token, hist>>

RegSendEvent(to, event) ==
    /\ ~poisoned
    /\ InboxesBelow(clients, MaxInbox)
    /\ clients' = send_event(clients, to, event)
    /\ UNCHANGED <<active_game, config, now, next_token, poisoned, hist>>

RegTakeEvents(id) ==
    /\ ~poisoned
    /\ clients' = take_events_cs(clients, id)
    /\ UNCHANGED <<active_game, config, now, next_token, poisoned, hist>>

NextRegistry ==
    \/ AdvanceTime
    \/ \E name \in OfferedNames : RegConnect(name)
    \/ \E id \in Ids : RegDisconnect(id)
    \/ RegPurge
    \/ \E tok \in Tokens : RegAuth(tok)
    \/ \E to \in SUBSET Ids, event \in RegEvents : RegSendEvent(to, event)
    \/ \E id \in Ids : RegTakeEvents(id)

SpecRegistry == Init /\ [][NextRegistry]_vars

(***************************************************************************)
(* The id pool on its own: more names and more connects than ids, so that  *)
(* the pool runs full and purged ids are assigned again.                   *)
(***************************************************************************)
\* One name more than there are ids, numbered in the order of first use.
IdsNames == {name \in 1..(MAX_PLAYERS + 1) : name <= hist.names_used + 1}

IdsConnect(name) ==
    /\ ~poisoned
    /\ next_token < MAX_PLAYERS + 1
    /\ LET r == connect_client(clients, name, next_token, now) IN
        /\ clients' = r.cs
        /\ next_token' = IF r.ret.res = "Ok" THEN next_token + 1 ELSE next_token
        /\ poisoned' = (r.ret.res = "Panic")
        /\ hist' = [HistConnect(hist, clients, name, r) EXCEPT
                        !.refused = @ \/ r.ret.res = "TooManyClientsRegistered"]
    /\ UNCHANGED <<active_game, config, now>>

NextIds ==
    \/ AdvanceTime
    \/ \E name \in IdsNames : IdsConnect(name)
    \/ \E id \in Ids : RegDisconnect(id)
    \/ RegPurge

SpecIds == Init /\ [][NextIds]_vars

(***************************************************************************)
(* The inboxes on their own: a few clients, every event sent and every     *)
(* event taken recorded per client.                                        *)
(***************************************************************************)
\* Clients that connect, and events sent to one client during a registration.
InboxClients == 2
MaxSends == 2
InboxNames == {name \in OfferedNames : name <= InboxClients}
\* Recipients: the ids the clients get and one id nobody holds.
InboxRecipients == SUBSET (0..InboxClients)

InboxDisconnect(id) ==
    /\ ~poisoned
    /\ LET r == disconnect_client(clients, id) IN
        /\ clients' = r.cs
        /\ hist' = IF r.ret.res = "Ok"
                   THEN [hist EXCEPT !.kept[id] = hist.taken[id]]
                   ELSE hist
    /\ UNCHANGED <<active_game, config, now, next_token, poisoned>>

InboxPurge ==
    /\ ~poisoned
    /\ LET r == purge_disconnected_clients(clients, config.max_client_inactive_time, now)
           gone == DOMAIN clients.clients \ DOMAIN r.cs.clients
           forget(log) == [id \in Ids |-> IF id \in gone THEN << >> ELSE log[id]]
       IN  /\ clients' = r.cs
           /\ hist' = [hist EXCEPT !.sent = forget(@), !.kept = forget(@),
                                   !.taken = forget(@)]
    /\ UNCHANGED <<active_game, config, now, next_token, poisoned>>

InboxSend(to, event) ==
    /\ ~poisoned
    /\ \A id \in Ids : Len(hist.sent[id]) < MaxSends
    /\ clients' = send_event(clients, to, event)
    /\ LET reached == {id \in to \cap DOMAIN clients.clients :
                            ~clients.clients[id].disconnected}
           log(q) == [id \in Ids |-> IF id \in reached THEN Append(q[id], event)
                                     ELSE q[id]]
       IN  hist' = [hist EXCEPT !.sent = log(@), !.kept = log(@)]
    /\ UNCHANGED <<active_game, config, now, next_token, poisoned>>

InboxTake(id) ==
    /\ ~poisoned
    /\ clients' = take_events_cs(clients, id)
    /\ hist' = [hist EXCEPT !.taken[id] = @ \o take_events_ret(clients, id)]
    /\ UNCHANGED <<active_game, config, now, next_token, poisoned>>

NextInbox ==
    \/ AdvanceTime
    \/ \E name \in InboxNames : RegConnect(name)
    \/ \E id \in Ids : InboxDisconnect(id)
    \/ InboxPurge
    \/ \E to \in InboxRecipients, event \in RegEvents : InboxSend(to, event)
    \/ \E id \in Ids : InboxTake(id)

SpecInbox == Init /\ [][NextInbox]_vars

(***************************************************************************)
(* The game engine on its own: a Game driven directly, as the unit tests   *)
(* of tests/game.rs drive it.                                              *)
(***************************************************************************)
\* The GameConfig values explored (durations in seconds).
\* Games are explored over at most this many players.
MaxGamePlayers == 3
\* A game is followed through at most this many days.
MaxDays == 2
TimeForDay == 0
TimeForNight == 0
MaxGracePeriod == 1

RoleCounts(m, d, i) == [role \in Roles |->
    IF role = "Mafia" THEN m ELSE IF role = "Doctor" THEN d ELSE i]

\* A GameConfig; the two all-votes flags are explored together.
Config(sc, ea, gp, nr) ==
    [start_cycle |-> sc,
     time_for_day |-> TimeForDay,
     end_day_after_all_votes |-> ea,
     time_for_night |-> TimeForNight,
     end_night_after_all_votes |-> ea,
     num_special_roles |-> nr,
     vote_grace_period |-> gp]

\* The configurations the engine is explored under.
GameConfigs ==
    {Config(sc, ea, gp, nr) :
        sc \in {"Day", "Night"}, ea \in BOOLEAN, gp \in 0..MaxGracePeriod,
        nr \in {RoleCounts(0, 1, 0), RoleCounts(1, 0, 0), RoleCounts(1, 1, 1),
                RoleCounts(2, 1, 1)}}

\* The configurations offered to start_game: two that a server of three
\* clients accepts and two it refuses.
ServerGameConfigs ==
    {Config("Night", TRUE, 0, RoleCounts(1, 0, 1)),
     Config("Day", FALSE, MaxGracePeriod, RoleCounts(1, 1, 0)),
     Config("Day", TRUE, 0, RoleCounts(0, 1, 0)),
     Config("Day", TRUE, 0, RoleCounts(2, 1, 1))}

\* All orders of the elements of a set: what the shuffle may produce.
Perms(S) ==
    {q \in [1..Cardinality(S) -> S] : \A a, b \in 1..Cardinality(S) : q[a] = q[b] => a = b}

\* The ids of the name map: clients.list_clients().values().
listed_ids(cs) == {cs.client_name_to_id[name] : name \in DOMAIN cs.client_name_to_id}

\* The registry after the first n names have connected.
RECURSIVE RegistryWith(_)
RegistryWith(n) ==
    IF n = 0 THEN ClientStateNew
    ELSE connect_client(RegistryWith(n - 1), n, n - 1, 0).cs

\* Every one of the given players casts a skip vote (cast_vote(p, None)).
RECURSIVE cast_skip_votes(_, _, _)
cast_skip_votes(g, voters, t) ==
    IF voters = {} THEN g
    ELSE LET v == Min(voters) IN
         cast_skip_votes(cast_vote(g, v, None, t), voters \ {v}, t)

\* One round: every Alive player casts a skip vote, then poll_end_cycle is
\* called, all at instant t.  With the all-votes flags set and no grace period
\* the round ends the cycle without a death; otherwise the game stays as it is.
skip_round(g, t) ==
    poll_end_cycle(cast_skip_votes(g, alive_players(g), t), None, t).game

\* The game after `days` days of such rounds (two rounds a day).  A day of
\* skip votes that ends both cycles changes day_num alone, and no step of the
\* game reads day_num below MaxDayNum, so every further day does the same.
skip_days(g, days, t) ==
    LET next_day == skip_round(skip_round(g, t), t) IN
    IF next_day = [g EXCEPT !.day_num = @ + 1]
    THEN [g EXCEPT !.day_num = @ + days]
    ELSE g

\* A game over a registry of MaxGamePlayers connected clients, for any
\* accepted configuration and any outcome of the shuffle: either just
\* started, or MaxDays days before the game's last day after days of skip
\* votes.
InitGame ==
    /\ clients = RegistryWith(MaxGamePlayers)
    /\ \E cfg \in GameConfigs, shuffled \in Perms(0..(MaxGamePlayers - 1)) :
        /\ start_check(cfg, MaxGamePlayers) = "Ok"
        /\ active_game \in {Some(start(cfg, shuffled, 0)),
                            Some(skip_days(start(cfg, shuffled, 0),
                                           MaxDayNum - MaxDays, 0))}
    /\ config \in ServerConfigs
    /\ now = 0
    /\ next_token = MaxGamePlayers
    /\ poisoned = FALSE
    /\ hist = [HistInit EXCEPT !.names_used = MaxGamePlayers, !.games = 1,
                               !.first_day = Unwrap(active_game).day_num]

\* History kept when the game changes: the instant the current cycle began,
\* and nobody has voted in it yet.
HistCycle(h, g, g2, t) ==
    IF g2.cycle /= g.cycle \/ g2.day_num /= g.day_num
    THEN [h EXCEPT !.cycle_began = t, !.voted = {}, !.last_vote = << >>,
                   !.revoted = FALSE]
    ELSE h

GameCastVote(voter, target) ==
    /\ LET g == Unwrap(active_game) IN
        /\ active_game' = Some(cast_vote(g, voter, target, now))
        /\ hist' = IF cast_vote_ret(g, voter, target, now) = "Ok"
                   THEN [hist EXCEPT !.voted = @ \cup {voter},
                                     !.last_vote = MapInsert(@, voter, target),
                                     !.revoted = /\ voter \in DOMAIN g.votes
                                                 /\ g.votes[voter] /= target]
                   ELSE hist
    /\ UNCHANGED <<clients, config, now, next_token, poisoned>>

GamePollEndCycle ==
    /\ LET g == Unwrap(active_game) IN
       \E pick \in find_picks(g) :
        LET r == poll_end_cycle(g, pick, now) IN
        /\ r.game.day_num < hist.first_day + MaxDays
        /\ active_game' = Some(r.game)
        /\ hist' = HistCycle(hist, g, r.game, now)
    /\ UNCHANGED <<clients, config, now, next_token, poisoned>>

NextGame ==
    \/ AdvanceTime
    \/ \E voter \in Ids, target \in {None} \cup {Some(p) : p \in Ids} :
            GameCastVote(voter, target)
    \/ GamePollEndCycle

SpecGame == InitGame /\ [][NextGame]_vars

(***************************************************************************)
(* Game::start on its own: a registry of any size up to MAX_PLAYERS and    *)
(* any configuration with up to MaxRoleCount players of each special role. *)
(***************************************************************************)
MaxRoleCount == 2

StartConfigs ==
    {Config(sc, FALSE, 0, RoleCounts(m, d, i)) :
        sc \in {"Day", "Night"}, m \in 0..MaxRoleCount, d \in 0..MaxRoleCount,
        i \in 0..MaxRoleCount}

InitStart ==
    /\ \E n \in 0..MAX_PLAYERS : clients = RegistryWith(n)
    /\ active_game = None
    /\ config \in ServerConfigs
    /\ now = 0
    /\ next_token = MAX_PLAYERS
    /\ poisoned = FALSE
    /\ hist = HistInit

\* Game::start, keeping the configuration it was called with and what it
\* returned.
GameStart(cfg) ==
    /\ ~IsSome(active_game)
    /\ LET ret == start_check(cfg, Cardinality(listed_ids(clients))) IN
        IF ret /= "Ok"
        THEN /\ UNCHANGED active_game
             /\ hist' = [hist EXCEPT !.started = Some([config |-> cfg, ret |-> ret])]
        ELSE \E shuffled \in Perms(listed_ids(clients)) :
             /\ active_game' = Some(start(cfg, shuffled, now))
             /\ hist' = [hist EXCEPT !.started = Some([config |-> cfg, ret |-> ret]),
                                     !.games = @ + 1, !.cycle_began = now]
    /\ UNCHANGED <<clients, config, now, next_token, poisoned>>

\* After the start the clock runs and the cycles of the game are polled.
NextStart ==
    \/ \E cfg \in StartConfigs : GameStart(cfg)
    \/ AdvanceTime
    \/ IsSome(active_game) /\ GamePollEndCycle

SpecStart == InitStart /\ [][NextStart]_vars

(***************************************************************************)
(* One cycle resolution on its own: a game of ResolvePlayers players with  *)
(* one or two Mafia, a Doctor and a Detective, with any votes its players  *)
(* may have cast in the cycle, polled once the cycle's duration has passed.*)
(***************************************************************************)
ResolvePlayers == 5

\* The instant of the polls: later than either cycle's duration after the
\* game's start.
ResolveTime == TimeForDay + TimeForNight + 1

\* The registry after clients 0..n-1 connected, one after the other.
RECURSIVE RegistryOf(_)
RegistryOf(n) ==
    IF n = 0 THEN ClientStateNew
    ELSE connect_client_new(RegistryOf(n - 1), n, n - 1, n - 1, 0)

\* The votes maps cast_vote can build in the first cycle of g: any of the
\* eligible voters, each with a skip or an Alive target.
CastableVotes(g) ==
    LET voters == IF g.cycle = "Day" THEN alive_players(g) ELSE alive_special(g)
        targets == {None} \cup {Some(p) : p \in alive_players(g)}
    IN  UNION {[V -> targets] : V \in SUBSET voters}

\* The games as Game::start builds them: Day or Night first, one or two Mafia.
ResolveStarts ==
    {start(Config(sc, FALSE, 0, RoleCounts(m, 1, 1)),
           [i \in 1..ResolvePlayers |-> i - 1], 0) : sc \in {"Day", "Night"}, m \in {1, 2}}

\* The game after a first cycle in which every voter that counts voted
\* against p and the cycle was polled at time 1.
vote_out(g, p) ==
    LET voters == IF g.cycle = "Day" THEN alive_players(g) ELSE alive_mafia(g)
        g1 == [g EXCEPT !.votes = [v \in voters |-> Some(p)]]
    IN  poll_end_cycle(g1, CHOOSE pick \in find_picks(g1) : TRUE, ResolveTime).game

\* The games resolved: in their first cycle, in their second after the last
\* player (a plain villager) was voted out in the first, or late, after days
\* without a vote.
ResolveGames ==
    ResolveStarts
    \cup {g \in {vote_out(g0, ResolvePlayers - 1) : g0 \in ResolveStarts} : ~IsSome(g.winner)}
    \cup {skip_days(g0, MaxDayNum - MaxDays, ResolveTime) : g0 \in ResolveStarts}

InitResolve ==
    /\ clients = RegistryOf(ResolvePlayers)
    /\ \E g \in ResolveGames : \E votes \in CastableVotes(g) :
            /\ active_game = Some([g EXCEPT !.votes = votes])
            /\ hist = [HistInit EXCEPT !.names_used = ResolvePlayers, !.games = 1,
                                       !.cycle_began = IF g \in ResolveStarts THEN 0 ELSE ResolveTime,
                                       !.first_day = g.day_num,
                                       !.voted = DOMAIN votes]
    /\ config \in ServerConfigs
    /\ now = ResolveTime
    /\ next_token = ResolvePlayers
    /\ poisoned = FALSE

\* Game::poll_end_cycle, keeping the game it was called on and the events it
\* returned when it ended the cycle.
ResolveCycle ==
    /\ LET g == Unwrap(active_game) IN
       \E pick \in find_picks(g) :
        LET r == poll_end_cycle(g, pick, now) IN
        /\ r.game.day_num < hist.first_day + MaxDays
        /\ active_game' = Some(r.game)
        /\ hist' = IF r.events = << >> THEN hist
                   ELSE [HistCycle(hist, g, r.game, now) EXCEPT
                            !.resolved = Some([game |-> g, events |-> r.events])]
    /\ UNCHANGED <<clients, config, now, next_token, poisoned>>

\* Game::cast_vote in the cycle a resolution has just begun.
ResolveCastVote(voter, target) ==
    /\ IsSome(hist.resolved)
    /\ LET g == Unwrap(active_game) IN
        /\ active_game' = Some(cast_vote(g, voter, target, now))
        /\ hist' = [hist EXCEPT
                        !.voted = IF cast_vote_ret(g, voter, target, now) = "Ok"
                                  THEN @ \cup {voter} ELSE @,
                        !.resolved = None]
    /\ UNCHANGED <<clients, config, now, next_token, poisoned>>

NextResolve ==
    \/ ResolveCycle
    \/ \E voter \in 0..(ResolvePlayers - 1),
          target \in {None} \cup {Some(p) : p \in 0..(ResolvePlayers - 1)} :
            ResolveCastVote(voter, target)

SpecResolve == InitResolve /\ [][NextResolve]_vars

(***************************************************************************)
(* Server facade: lib.rs                                                   *)
(***************************************************************************)
\* Sizes of NIGHT_DEATH_MESSAGES and DAY_DEATH_MESSAGES (consts.rs).
NumNightDeathMessages == 6
NumDayDeathMessages == 1

\* An in_active_game that is true of a held game that is won, too.
in_active_game_held(ag) == IsSome(ag)

\* MafiaGameServerInner::in_active_game
in_active_game(ag) == IsSome(ag) /\ ~IsSome(Unwrap(ag).winner)

\* A get_clients_for_channel that ignores the channel: every client receives.
get_clients_for_channel_open(cs, ag, actor, channel) ==
    all_client_ids(cs) \cup SeqRange(actor)

\* MafiaGameServerInner::get_clients_for_channel; actor is an Option.
get_clients_for_channel(cs, ag, actor, channel) ==
    (IF channel = "Public" THEN all_client_ids(cs)
     ELSE IF channel = "Mafia"
     THEN IF IsSome(ag) THEN all_client_ids(cs) \ alive_villagers(Unwrap(ag)) ELSE {}
     ELSE IF IsSome(ag) THEN all_client_ids(cs) \ alive_players(Unwrap(ag))
          ELSE all_client_ids(cs))
    \cup SeqRange(actor)

\* A get_event_visibility that shows every event to every client.
get_event_visibility_open(cs, ag, event) == all_client_ids(cs)

\* MafiaGameServerInner::get_event_visibility
get_event_visibility(cs, ag, event) ==
    CASE event.type = "EndGame" -> all_client_ids(cs)
      [] event.type = "ClientConnected" -> all_client_ids(cs) \ {event.info.id}
      [] event.type = "ClientDisconnected" -> all_client_ids(cs) \ {event.id}
      [] event.type = "MessageReceived" ->
            IF IsSome(event.from)
            THEN get_clients_for_channel(cs, ag, event.from, event.channel)
            ELSE all_client_ids(cs)
      [] event.type = "VoteIssued" ->
            get_clients_for_channel(cs, ag, Some(event.voter), event.channel)
      [] event.type = "FailedVote" -> get_clients_for_channel(cs, ag, None, event.channel)
      [] event.type = "PlayerKilled" -> all_client_ids(cs)
      [] event.type = "SetCycle" -> all_client_ids(cs)
      [] event.type = "PlayerInvestigated" ->
            get_clients_for_channel(cs, ag, Some(event.actor), "Spectator")
      [] event.type = "GameWon" -> all_client_ids(cs)

\* The death messages `choose` may return for a PlayerKilled of that cycle.
death_messages(cfg, cycle) ==
    IF ~cfg.randomize_death_message THEN {0}
    ELSE IF cycle = "Day" THEN 0..(NumDayDeathMessages - 1)
    ELSE 0..(NumNightDeathMessages - 1)

\* MafiaGameServerInner::send_event; msg is what `choose` returned.
server_send_event(cs, ag, cfg, event, msg) ==
    send_event(cs, get_event_visibility(cs, ag, event),
               IF event.type = "PlayerKilled" /\ cfg.randomize_death_message
               THEN [event EXCEPT !.death_message = msg]
               ELSE event)

\* The loop `for event in events { slf.send_event(event) }`.
\* A fan-out that sends the last event of the list first.
RECURSIVE server_send_events_reversed(_, _, _, _, _)
server_send_events_reversed(cs, ag, cfg, events, msg) ==
    IF events = << >> THEN cs
    ELSE server_send_event(server_send_events_reversed(cs, ag, cfg, Tail(events), msg),
                           ag, cfg, Head(events), msg)

RECURSIVE server_send_events(_, _, _, _, _)
server_send_events(cs, ag, cfg, events, msg) ==
    IF events = << >> THEN cs
    ELSE server_send_events(server_send_event(cs, ag, cfg, Head(events), msg),
                            ag, cfg, Tail(events), msg)

\* The death messages to choose from for a batch of events (at most one
\* PlayerKilled is in a batch).
batch_death_messages(cfg, events) ==
    IF \E k \in DOMAIN events : events[k].type = "PlayerKilled"
    THEN death_messages(cfg, (CHOOSE e \in SeqRange(events) : e.type = "PlayerKilled").cycle)
    ELSE {0}

\* A votes filter that shows every vote to every client.
visible_votes_open(g, client) == g.votes

\* get_game_info_for, the votes shown to the client.
visible_votes(g, client) ==
    LET status == get_player_status(g, client)
        role == get_player_role(g, client)
    IN  IF status /= Some("Alive") THEN g.votes
        ELSE IF g.cycle = "Day" THEN g.votes
        ELSE IF role = Some("Mafia")
        THEN [v \in {x \in DOMAIN g.votes : get_player_allegiance(g, x) = "Mafia"} |-> g.votes[v]]
        ELSE IF IsSome(role)
        THEN [v \in {x \in DOMAIN g.votes : x = client} |-> g.votes[v]]
        ELSE << >>

\* A roles filter that shows every role to every client.
visible_roles_open(g, client) == g.player_to_role

\* get_game_info_for, the roles shown to the client.
visible_roles(g, client) ==
    LET status == get_player_status(g, client)
        role == get_player_role(g, client)
    IN  IF status /= Some("Alive") THEN g.player_to_role
        ELSE IF role = Some("Mafia")
        THEN [p \in {x \in DOMAIN g.player_to_role : g.player_to_role[x] = "Mafia"} |->
                    g.player_to_role[p]]
        ELSE IF role = Some("Doctor") THEN [p \in {client} |-> "Doctor"]
        ELSE IF role = Some("Detective") THEN [p \in {client} |-> "Detective"]
        ELSE << >>

\* MafiaGameServerInner::get_game_info_for
get_game_info_for(ag, client, t) ==
    IF ~IsSome(ag) THEN None
    ELSE LET g == Unwrap(ag) IN
         Some([cycle_start_time_unix_ts_secs |-> t,
               cycle_duration_secs |-> get_cycle_duration(g),
               current_cycle |-> g.cycle,
               day_num |-> g.day_num,
               player_status |-> g.player_status,
               winner |-> g.winner,
               player_to_role |-> visible_roles(g, client),
               votes |-> visible_votes(g, client)])

\* MafiaGameServerInner::disconnect_client
inner_disconnect_client(cs, id) ==
    LET r == disconnect_client(cs, id) IN
    IF r.ret.res /= "Ok" THEN r
    ELSE [cs |-> send_event(r.cs, all_client_ids(r.cs),
                            [type |-> "ClientDisconnected", id |-> id]),
          ret |-> r.ret]

\* The loop of MafiaGameServerInner::purge_disconnected_clients over the
\* evicted clients, in the order the purge returned them.
RECURSIVE send_disconnected(_, _)
send_disconnected(cs, order) ==
    IF order = << >> THEN cs
    ELSE send_disconnected(
            send_event(cs, all_client_ids(cs),
                       [type |-> "ClientDisconnected", id |-> Head(order)]),
            Tail(order))

\* MafiaGameServerInner::purge_disconnected_clients: the registries it may
\* yield (one per order of the returned Vec).
inner_purge_results(cs, cfg, t) ==
    LET r == purge_disconnected_clients(cs, cfg.max_client_inactive_time, t) IN
    {send_disconnected(r.cs, order) : order \in Perms(r.ret)}

\* The loop of start_game sending each client its SetGame.
RECURSIVE send_set_game(_, _, _, _)
send_set_game(cs, ag, t, todo) ==
    IF todo = {} THEN cs
    ELSE LET c == Min(todo) IN
         send_set_game(
            send_event(cs, {c},
                       [type |-> "SetGame", game |-> Unwrap(get_game_info_for(ag, c, t))]),
            ag, t, todo \ {c})

\* A channel choice that goes by the held game even after it is won.
message_channel_held(ag, client_id) ==
    IF IsSome(ag)
    THEN LET g == Unwrap(ag) IN
         IF get_player_status(g, client_id) /= Some("Alive") THEN "Spectator"
         ELSE IF g.cycle = "Day" THEN "Public"
         ELSE IF get_player_allegiance(g, client_id) = "Mafia" THEN "Mafia"
         ELSE "Spectator"
    ELSE "Public"

\* The channel of send_message.
message_channel(ag, client_id) ==
    IF in_active_game(ag)
    THEN LET g == Unwrap(ag) IN
         IF get_player_status(g, client_id) /= Some("Alive") THEN "Spectator"
         ELSE IF g.cycle = "Day" THEN "Public"
         ELSE IF get_player_allegiance(g, client_id) = "Mafia" THEN "Mafia"
         ELSE "Spectator"
    ELSE "Public"

\* A channel choice that takes every vote for a Day vote.
vote_channel_public(g, client_id) == "Public"

\* The channel of the VoteIssued event of cast_vote.
vote_channel(g, client_id) ==
    IF g.cycle = "Day" THEN "Public"
    ELSE IF get_player_allegiance(g, client_id) = "Mafia" THEN "Mafia"
    ELSE "Spectator"

(***************************************************************************)
(* The server: the public operations of MafiaGameServer, each one step     *)
(* (each takes the lock once and holds it to its end).                     *)
(***************************************************************************)
\* One explored run starts at most MaxGames games and holds at most
\* MaxRequests accepted votes, chat messages and disconnects.
MaxGames == 1
MaxRequests == 2

Texts == {"hello"}

\* MafiaGameServer::connect_client
ConnectClient(name) ==
    /\ ~poisoned
    /\ next_token < MaxTokens
    /\ InboxesBelow(clients, MaxInbox)
    /\ LET r == connect_client(clients, name, next_token, now) IN
        IF r.ret.res /= "Ok"
        THEN UNCHANGED <<clients, next_token, hist>>
        ELSE LET id == Unwrap(r.ret.id)
                 connected == [c \in DOMAIN r.cs.clients |-> r.cs.clients[c].info]
                 cs1 == server_send_event(r.cs, active_game, config,
                            [type |-> "ClientConnected", info |-> r.cs.clients[id].info], 0)
             IN /\ clients' = send_event(cs1, {id},
                        [type |-> "SetServerInfo",
                         connected_clients |-> connected,
                         active_game |-> get_game_info_for(active_game, id, now)])
                /\ next_token' = next_token + 1
                /\ hist' = HistConnect(hist, clients, name, r)
    /\ UNCHANGED <<active_game, config, now, poisoned>>

\* MafiaGameServer::disconnect_client
DisconnectClient(tok) ==
    /\ ~poisoned
    /\ hist.requests < MaxRequests
    /\ InboxesBelow(clients, MaxInbox)
    /\ LET a == auth_client_ret(clients, tok) IN
        IF a.res /= "Ok"
        THEN /\ poisoned' = (a.res = "Panic")
             /\ UNCHANGED <<clients, hist>>
        ELSE /\ clients' = inner_disconnect_client(auth_client_cs(clients, tok, now),
                                                   Unwrap(a.id)).cs
             /\ hist' = [hist EXCEPT !.requests = @ + 1]
             /\ UNCHANGED poisoned
    /\ UNCHANGED <<active_game, config, now, next_token>>

\* MafiaGameServer::force_disconnect_client
ForceDisconnectClient(id) ==
    /\ ~poisoned
    /\ hist.requests < MaxRequests
    /\ InboxesBelow(clients, MaxInbox)
    /\ LET r == inner_disconnect_client(clients, id) IN
        /\ clients' = r.cs
        /\ hist' = IF r.ret.res = "Ok" THEN [hist EXCEPT !.requests = @ + 1] ELSE hist
    /\ UNCHANGED <<active_game, config, now, next_token, poisoned>>

\* MafiaGameServer::start_game: the outcomes it may have (one per order of
\* the purge's notices and per outcome of the shuffle): the registry and the
\* game held afterwards, and the value returned.
start_game(cs, ag, scfg, cfg, t) ==
    IF in_active_game(ag)
    THEN {[cs |-> cs, ag |-> ag, ret |-> "GameInProgress"]}
    ELSE UNION {
        LET ret == start_check(cfg, Cardinality(listed_ids(cs1))) IN
        IF ret /= "Ok"
        THEN {[cs |-> cs1, ag |-> ag, ret |-> ret]}
        ELSE {[cs |-> send_set_game(cs1, Some(start(cfg, shuffled, t)), t,
                                    all_client_ids(cs1)),
               ag |-> Some(start(cfg, shuffled, t)),
               ret |-> "Ok"] : shuffled \in Perms(listed_ids(cs1))}
        : cs1 \in inner_purge_results(cs, scfg, t)}

\* MafiaGameServer::start_game
StartGame(cfg) ==
    /\ ~poisoned
    /\ hist.games < MaxGames
    /\ InboxesBelow(clients, MaxInbox)
    /\ \E r \in start_game(clients, active_game, config, cfg, now) :
        /\ Cardinality(listed_ids(r.cs)) <= MaxGamePlayers
        /\ clients' = r.cs
        /\ active_game' = r.ag
        /\ hist' = IF r.ret = "Ok"
                   THEN [hist EXCEPT !.games = @ + 1, !.cycle_began = now, !.voted = {}]
                   ELSE hist
    /\ UNCHANGED <<config, now, next_token, poisoned>>

\* MafiaGameServer::end_game
EndGame ==
    /\ ~poisoned
    /\ InboxesBelow(clients, MaxInbox)
    /\ IF ~IsSome(active_game)
       THEN UNCHANGED <<clients, active_game>>
       ELSE /\ active_game' = None
            /\ clients' = server_send_event(clients, None, config, [type |-> "EndGame"], 0)
    /\ UNCHANGED <<config, now, next_token, poisoned, hist>>

\* MafiaGameServer::do_tick
DoTick ==
    /\ ~poisoned
    /\ InboxesBelow(clients, MaxInbox)
    /\ IF IsSome(active_game)
       THEN LET g == Unwrap(active_game) IN
            \E pick \in find_picks(g) :
            LET r == poll_end_cycle(g, pick, now) IN
            \E msg \in batch_death_messages(config, r.events) :
            /\ r.game.day_num < hist.first_day + MaxDays
            /\ active_game' = Some(r.game)
            /\ clients' = server_send_events(clients, Some(r.game), config, r.events, msg)
            /\ hist' = HistCycle(hist, g, r.game, now)
       ELSE /\ clients' \in inner_purge_results(clients, config, now)
            /\ UNCHANGED <<active_game, hist>>
    /\ UNCHANGED <<config, now, next_token, poisoned>>

\* MafiaGameServer::broadcast_message
BroadcastMessage(text) ==
    /\ ~poisoned
    /\ hist.requests < MaxRequests
    /\ InboxesBelow(clients, MaxInbox)
    /\ clients' = server_send_event(clients, active_game, config,
                    [type |-> "MessageReceived", channel |-> "Public",
                     contents |-> text, from |-> None], 0)
    /\ hist' = [hist EXCEPT !.requests = @ + 1]
    /\ UNCHANGED <<active_game, config, now, next_token, poisoned>>

\* MafiaGameServer::send_message (a panic under the read lock does not poison it)
SendMessage(tok, text) ==
    /\ ~poisoned
    /\ hist.requests < MaxRequests
    /\ InboxesBelow(clients, MaxInbox)
    /\ LET a == auth_client_ret(clients, tok) IN
        IF a.res /= "Ok"
        THEN UNCHANGED <<clients, hist>>
        ELSE /\ clients' = server_send_event(auth_client_cs(clients, tok, now),
                                active_game, config,
                                [type |-> "MessageReceived",
                                 channel |-> message_channel(active_game, Unwrap(a.id)),
                                 contents |-> text, from |-> a.id], 0)
             /\ hist' = [hist EXCEPT !.requests = @ + 1]
    /\ UNCHANGED <<active_game, config, now, next_token, poisoned>>

\* MafiaGameServer::take_events
TakeEvents(tok) ==
    /\ ~poisoned
    /\ LET a == auth_client_ret(clients, tok) IN
        IF a.res /= "Ok"
        THEN /\ poisoned' = (a.res = "Panic")
             /\ UNCHANGED clients
        ELSE /\ a.id = NextToPoll(clients)
             /\ clients' = take_events_cs(auth_client_cs(clients, tok, now), Unwrap(a.id))
             /\ UNCHANGED poisoned
    /\ UNCHANGED <<active_game, config, now, next_token, hist>>

\* MafiaGameServer::cast_vote.  poll_end_cycle runs when the chain of events is
\* built, before the first event is sent.
CastVote(tok, target) ==
    /\ ~poisoned
    /\ hist.requests < MaxRequests
    /\ InboxesBelow(clients, MaxInbox)
    /\ LET a == auth_client_ret(clients, tok) IN
        IF a.res /= "Ok"
        THEN /\ poisoned' = (a.res = "Panic")
             /\ UNCHANGED <<clients, active_game, hist>>
        ELSE
        LET id == Unwrap(a.id)
            cs1 == auth_client_cs(clients, tok, now)
        IN  IF ~in_active_game(active_game)
                \/ cast_vote_ret(Unwrap(active_game), id, target, now) /= "Ok"
            THEN /\ clients' = cs1
                 /\ UNCHANGED <<active_game, poisoned, hist>>
            ELSE
            LET g1 == cast_vote(Unwrap(active_game), id, target, now)
                issued == [type |-> "VoteIssued", voter |-> id, target |-> target,
                           channel |-> vote_channel(g1, id)]
            IN  \E pick \in find_picks(g1) :
                LET r == poll_end_cycle(g1, pick, now) IN
                \E msg \in batch_death_messages(config, r.events) :
                /\ r.game.day_num < hist.first_day + MaxDays
                /\ active_game' = Some(r.game)
                /\ clients' = server_send_events(cs1, Some(r.game), config,
                                                 <<issued>> \o r.events, msg)
                /\ hist' = [HistCycle([hist EXCEPT !.voted = @ \cup {id}],
                                      g1, r.game, now) EXCEPT !.requests = @ + 1]
                /\ UNCHANGED poisoned
    /\ UNCHANGED <<config, now, next_token>>

Next ==
    \/ AdvanceTime
    \/ \E name \in OfferedNames : ConnectClient(name)
    \/ \E tok \in Tokens : DisconnectClient(tok)
    \/ \E id \in Ids : ForceDisconnectClient(id)
    \/ \E cfg \in ServerGameConfigs : StartGame(cfg)
    \/ EndGame
    \/ DoTick
    \/ \E text \in Texts : BroadcastMessage(text)
    \/ \E tok \in Tokens, text \in Texts : SendMessage(tok, text)
    \/ \E tok \in Tokens : TakeEvents(tok)
    \/ \E tok \in Tokens, target \in Targets : CastVote(tok, target)

Spec == Init /\ [][Next]_vars

(***************************************************************************)
(* Properties of the registry.                                             *)
(***************************************************************************)
\* C1: every registered client that is not marked disconnected authenticates
\* with its current session token (the one its latest successful connect
\* returned and stored in its record), and auth returns its id.
C1_CurrentTokenAuthenticates ==
    \A id \in DOMAIN clients.clients :
        ~clients.clients[id].disconnected =>
            auth_client_ret(clients, clients.clients[id].session_token) = Ok(Some(id), None)

\* C2: a token replaced by a reconnect is refused with InvalidSessionToken in
\* every later state.
C2_RotatedTokenInvalid ==
    \A tok \in hist.rotated : auth_client_ret(clients, tok).res = "InvalidSessionToken"

\* C3: every name->id and token->id entry refers to a client of the client
\* map, and no auth reaches the 'valid client' assertion failure.
C3_IndexesPointToClients ==
    /\ \A name \in DOMAIN clients.client_name_to_id :
            clients.client_name_to_id[name] \in DOMAIN clients.clients
    /\ \A tok \in DOMAIN clients.session_token_to_id :
            clients.session_token_to_id[tok] \in DOMAIN clients.clients
    /\ \A tok \in Tokens : auth_client_ret(clients, tok).res /= "Panic"
    /\ ~poisoned


(***************************************************************************)
(* A whole game: from Game::start to its winner, with any votes, polled    *)
(* again and again while the clock runs.                                   *)
(***************************************************************************)
\* One Mafia, a Doctor and a Detective (the Doctor can save every victim, so
\* the game can run to the day limit), a cycle ending when its time is up or
\* all votes are cast; the shuffle deals the roles in id order, any other
\* deal being this one with the players renamed.
TermConfigs ==
    {Config(sc, TRUE, 0, RoleCounts(1, 1, 1)) : sc \in {"Day", "Night"}}

InitTerm ==
    /\ clients = RegistryWith(MaxGamePlayers)
    /\ \E cfg \in TermConfigs :
        active_game = Some(start(cfg, [i \in 1..MaxGamePlayers |-> i - 1], 0))
    /\ config \in ServerConfigs
    /\ now = 0
    /\ next_token = MaxGamePlayers
    /\ poisoned = FALSE
    /\ hist = [HistInit EXCEPT !.names_used = MaxGamePlayers, !.games = 1]

\* Game::cast_vote
TermCastVote(voter, target) ==
    /\ active_game' = Some(cast_vote(Unwrap(active_game), voter, target, now))
    /\ UNCHANGED <<clients, config, now, next_token, poisoned, hist>>

\* Game::poll_end_cycle
TermPollEndCycle ==
    /\ \E pick \in find_picks(Unwrap(active_game)) :
        active_game' = Some(poll_end_cycle(Unwrap(active_game), pick, now).game)
    /\ UNCHANGED <<clients, config, now, next_token, poisoned, hist>>

NextTerm ==
    \/ AdvanceTime
    \/ \E voter \in DOMAIN Unwrap(active_game).player_status,
          target \in {None} \cup {Some(p) : p \in DOMAIN Unwrap(active_game).player_status} :
            TermCastVote(voter, target)
    \/ TermPollEndCycle

\* The clock runs, and the ticker keeps calling poll_end_cycle.
SpecTerm ==
    InitTerm /\ [][NextTerm]_vars /\ WF_vars(AdvanceTime) /\ WF_vars(TermPollEndCycle)

(***************************************************************************)
(* The lobby: a server whose first clients have connected and emptied      *)
(* their inboxes, followed through more than one game.                     *)
(***************************************************************************)
MaxLobbyGames == 2

\* The configurations offered in the lobby: the Night-first one a server of
\* three clients accepts, and the two it refuses.
LobbyConfigs ==
    {cfg \in ServerGameConfigs :
        cfg.start_cycle = "Night" \/ start_check(cfg, MaxGamePlayers) /= "Ok"}

InitLobby ==
    /\ clients = RegistryWith(MaxGamePlayers)
    /\ active_game = None
    /\ config \in ServerConfigs
    /\ now = 0
    /\ next_token = MaxGamePlayers
    /\ poisoned = FALSE
    /\ hist = [HistInit EXCEPT !.names_used = MaxGamePlayers]

\* MafiaGameServer::start_game
LobbyStartGame(cfg) ==
    /\ ~poisoned
    /\ hist.games < MaxLobbyGames
    /\ InboxesBelow(clients, MaxInbox)
    /\ \E r \in start_game(clients, active_game, config, cfg, now) :
        /\ Cardinality(listed_ids(r.cs)) <= MaxGamePlayers
        /\ clients' = r.cs
        /\ active_game' = r.ag
        /\ hist' = IF r.ret = "Ok"
                   THEN [hist EXCEPT !.games = @ + 1, !.cycle_began = now, !.voted = {},
                                     !.first_day = 1]
                   ELSE hist
    /\ UNCHANGED <<config, now, next_token, poisoned>>

NextLobby ==
    \/ AdvanceTime
    \/ \E name \in OfferedNames : ConnectClient(name)
    \/ \E id \in Ids : ForceDisconnectClient(id)
    \/ \E cfg \in LobbyConfigs : LobbyStartGame(cfg)
    \/ EndGame
    \/ DoTick
    \/ \E tok \in Tokens : TakeEvents(tok)
    \/ \E tok \in Tokens, target \in Targets : CastVote(tok, target)

SpecLobby == InitLobby /\ [][NextLobby]_vars

(***************************************************************************)
(* Event visibility and snapshots.  An operation appends its events to the *)
(* inboxes while it holds the lock, so the recipients of an event are      *)
(* judged against the game the operation leaves behind.                    *)
(***************************************************************************)
\* The events waiting for a client.
Waiting(id) == SeqRange(clients.clients[id].inbox)

\* The events a step appends to the inbox of a client.
Appended(id) ==
    LET new == clients'.clients[id].inbox
        old == IF id \in DOMAIN clients.clients THEN clients.clients[id].inbox ELSE << >>
    IN  IF Len(new) > Len(old) THEN {new[i] : i \in (Len(old) + 1)..Len(new)} ELSE {}

\* The client is an Alive player of the game.
AlivePlayerOf(ag, id) == IsSome(ag) /\ id \in alive_players(Unwrap(ag))

\* The client is an Alive player of Villagers allegiance of the game.
AliveVillagerOf(ag, id) ==
    AlivePlayerOf(ag, id) /\ get_player_allegiance(Unwrap(ag), id) = "Villagers"

IsAlivePlayer(id) == AlivePlayerOf(active_game, id)

IsAliveVillager(id) == AliveVillagerOf(active_game, id)

\* The GameInfo snapshots among a set of events.
SnapshotsIn(events) ==
    {e.game : e \in {x \in events : x.type = "SetGame"}}
    \cup {Unwrap(e.active_game) :
            e \in {x \in events : x.type = "SetServerInfo" /\ IsSome(x.active_game)}}

Snapshots(id) == SnapshotsIn(Waiting(id))

\* C4: a MessageReceived of send_message is appended only to inboxes of
\* eligible clients: on the Mafia channel no recipient is an Alive player of
\* Villagers allegiance, on the Spectator channel no recipient other than the
\* sender is an Alive player.
C4_MessageRecipientsEligible ==
    [][\A id \in DOMAIN clients'.clients : \A e \in Appended(id) :
        (e.type = "MessageReceived" /\ IsSome(e.from)) =>
            /\ e.channel = "Mafia" => ~AliveVillagerOf(active_game', id)
            /\ e.channel = "Spectator" =>
                    (id = Unwrap(e.from) \/ ~AlivePlayerOf(active_game', id))
    ]_vars

\* A Mafia-channel message was sent while an Alive Villagers-allegiance player
\* was connected.
C4_Witness ==
    /\ \E id \in DOMAIN clients.clients : \E e \in Waiting(id) :
            e.type = "MessageReceived" /\ IsSome(e.from) /\ e.channel = "Mafia"
    /\ \E v \in DOMAIN clients.clients :
            IsAliveVillager(v) /\ ~clients.clients[v].disconnected

\* C5: every GameInfo snapshot sent has player_to_role filtered by its recipient:
\* a spectator or Dead recipient gets the full map, an Alive Mafia exactly the
\* Mafia entries, an Alive Doctor or Detective only its own entry, an Alive
\* plain Villager the empty map; so a snapshot for an Alive
\* Villagers-allegiance player shows no other player's role.
C5_SnapshotRolesFiltered ==
    [][\A id \in DOMAIN clients'.clients : \A info \in SnapshotsIn(Appended(id)) :
        LET g == Unwrap(active_game')
            alive == AlivePlayerOf(active_game', id)
            shown == info.player_to_role
        IN  /\ ~alive => shown = g.player_to_role
            /\ (alive /\ get_player_role(g, id) = Some("Mafia")) =>
                    /\ DOMAIN shown = {p \in DOMAIN g.player_to_role : g.player_to_role[p] = "Mafia"}
                    /\ \A p \in DOMAIN shown : shown[p] = "Mafia"
            /\ (alive /\ get_player_role(g, id) \in {Some("Doctor"), Some("Detective")}) =>
                    /\ DOMAIN shown = {id}
                    /\ Some(shown[id]) = get_player_role(g, id)
            /\ (alive /\ get_player_role(g, id) = None) => DOMAIN shown = {}
            /\ AliveVillagerOf(active_game', id) => DOMAIN shown \subseteq {id}
    ]_vars

\* A snapshot waits for an Alive Doctor or Detective of a game that has
\* another role holder, and one waits for an Alive plain Villager.
C5_Witness ==
    /\ \E id \in DOMAIN clients.clients :
            /\ Snapshots(id) /= {}
            /\ IsAlivePlayer(id)
            /\ get_player_role(Unwrap(active_game), id) \in {Some("Doctor"), Some("Detective")}
            /\ Cardinality(DOMAIN Unwrap(active_game).player_to_role) > 1
    /\ \E id \in DOMAIN clients.clients :
            /\ Snapshots(id) /= {}
            /\ IsAlivePlayer(id)
            /\ get_player_role(Unwrap(active_game), id) = None

\* C6: every GameInfo snapshot has votes filtered by its recipient: a
\* spectator or Dead recipient sees all votes, any Alive player sees all votes
\* by Day; by Night an Alive Mafia sees exactly the votes of Mafia voters, an
\* Alive Doctor or Detective only its own vote, an Alive plain Villager none.
C6_SnapshotVotesFiltered ==
    [][\A id \in DOMAIN clients'.clients : \A info \in SnapshotsIn(Appended(id)) :
        LET g == Unwrap(active_game')
            alive == AlivePlayerOf(active_game', id)
            night == alive /\ g.cycle = "Night"
            shown == info.votes
        IN  /\ \A v \in DOMAIN shown : v \in DOMAIN g.votes /\ shown[v] = g.votes[v]
            /\ ~alive => DOMAIN shown = DOMAIN g.votes
            /\ (alive /\ g.cycle = "Day") => DOMAIN shown = DOMAIN g.votes
            /\ (night /\ get_player_role(g, id) = Some("Mafia")) =>
                    DOMAIN shown = {v \in DOMAIN g.votes : get_player_role(g, v) = Some("Mafia")}
            /\ (night /\ get_player_role(g, id) \in {Some("Doctor"), Some("Detective")}) =>
                    DOMAIN shown = DOMAIN g.votes \cap {id}
            /\ (night /\ get_player_role(g, id) = None) => DOMAIN shown = {}
    ]_vars

\* By Night a snapshot waits for an Alive player while a vote of another
\* player is recorded.
C6_Witness ==
    \E id \in DOMAIN clients.clients :
        /\ Snapshots(id) /= {}
        /\ IsAlivePlayer(id)
        /\ Unwrap(active_game).cycle = "Night"
        /\ DOMAIN Unwrap(active_game).votes \ {id} /= {}

\* C7: a PlayerInvestigated is appended only to the inbox of its actor and of
\* clients that are not Alive players, and a FailedVote of the Mafia channel
\* is never appended to the inbox of an Alive player of Villagers allegiance.
C7_InvestigationAndFailedVotePrivate ==
    [][\A id \in DOMAIN clients'.clients : \A e \in Appended(id) :
        /\ e.type = "PlayerInvestigated" =>
                (id = e.actor \/ ~AlivePlayerOf(active_game', id))
        /\ (e.type = "FailedVote" /\ e.channel = "Mafia") =>
                ~AliveVillagerOf(active_game', id)
    ]_vars

\* A night ended with an investigation and a failed Mafia vote while another
\* Alive player than the detective was connected.
C7_Witness ==
    /\ \E id \in DOMAIN clients.clients : \E e \in Waiting(id) :
            /\ e.type = "PlayerInvestigated"
            /\ \E p \in DOMAIN clients.clients :
                    p /= e.actor /\ IsAlivePlayer(p) /\ ~clients.clients[p].disconnected
    /\ \E id \in DOMAIN clients.clients : \E e \in Waiting(id) :
            e.type = "FailedVote" /\ e.channel = "Mafia"
    /\ \E v \in DOMAIN clients.clients :
            IsAliveVillager(v) /\ ~clients.clients[v].disconnected

(***************************************************************************)
(* Cycle timing.  hist.cycle_began is the instant the current cycle began: *)
(* the game's start for the first cycle, the latest transition afterwards. *)
(***************************************************************************)
\* C8: in every cycle, a cast_vote made less than vote_grace_period after the
\* cycle began is rejected with InvalidVote and leaves the votes unchanged.
C8_GracePeriodEveryCycle ==
    IsSome(active_game) =>
        LET g == Unwrap(active_game) IN
        DurationSince(now, hist.cycle_began) < g.config.vote_grace_period =>
            \A voter \in Ids, target \in {None} \cup {Some(p) : p \in Ids} :
                /\ cast_vote_ret(g, voter, target, now) = "InvalidVote"
                /\ cast_vote(g, voter, target, now).votes = g.votes

\* (a), (b), (c): what lets poll_end_cycle end the current cycle.
CycleMayEnd(g) ==
    \/ DurationSince(now, hist.cycle_began) > get_cycle_duration(g)
    \/ /\ g.cycle = "Day" /\ g.config.end_day_after_all_votes
       /\ Cardinality(DOMAIN g.votes) = Cardinality(alive_players(g))
    \/ /\ g.cycle = "Night" /\ g.config.end_night_after_all_votes
       /\ Cardinality(DOMAIN g.votes) = Cardinality(alive_special(g))

\* C9: poll_end_cycle on a game without a winner ends the cycle only if (a)
\* more than the cycle's duration has elapsed since the cycle began, or (b)
\* by Day with end_day_after_all_votes every Alive player has voted, or (c)
\* by Night with end_night_after_all_votes every Alive special-role player
\* has voted; otherwise it returns no events and changes nothing.
C9_PollEndsCycleOnlyWhenDue ==
    IsSome(active_game) =>
        LET g == Unwrap(active_game) IN
        (~IsSome(g.winner) /\ ~CycleMayEnd(g)) =>
            \A pick \in find_picks(g) :
                poll_end_cycle(g, pick, now) = [game |-> g, events |-> << >>]

\* An accepted vote of the facade's cast_vote.
VoteAccepted ==
    /\ in_active_game(active_game)
    /\ hist'.requests = hist.requests + 1
    /\ \E tok \in Tokens, target \in Targets : CastVote(tok, target)

\* The voters the all-votes rule of the cycle counts.
EligibleVoters(g) == IF g.cycle = "Day" THEN alive_players(g) ELSE alive_special(g)

\* The end-after-all-votes flag of the cycle.
AllVotesFlag(g) ==
    IF g.cycle = "Day" THEN g.config.end_day_after_all_votes
    ELSE g.config.end_night_after_all_votes

\* The game moved out of the cycle g was in.
CycleEnded(g, g2) == g2.cycle /= g.cycle \/ g2.day_num /= g.day_num \/ g2.winner /= g.winner

\* C10: an accepted cast_vote with the all-votes flag set ends the cycle in
\* the same operation when it completes the votes of the eligible voters; a
\* vote that does not complete them ends the cycle only if the cycle's
\* duration has expired; the all-votes rule never ends a cycle with no votes.
C10_VoteEndsCycleWhenComplete ==
    [][VoteAccepted =>
        LET g == Unwrap(active_game)
            g2 == Unwrap(active_game')
        IN  \A tok \in Tokens, target \in Targets : CastVote(tok, target) =>
            LET g1 == cast_vote(g, Unwrap(auth_client_ret(clients, tok).id), target, now)
                complete == DOMAIN g1.votes = EligibleVoters(g1)
            IN  /\ (AllVotesFlag(g) /\ complete) => CycleEnded(g, g2)
                /\ (CycleEnded(g, g2) /\ ~(AllVotesFlag(g) /\ complete)) =>
                        DurationSince(now, hist.cycle_began) > get_cycle_duration(g)
                /\ DOMAIN g1.votes /= {}
    ]_vars

(***************************************************************************)
(* Votes and cycle resolution.                                             *)
(***************************************************************************)
\* The events a step appended to the inbox of id, in the order sent.
AppendedSeq(id) ==
    LET new == clients'.clients[id].inbox
        old == IF id \in DOMAIN clients.clients THEN clients.clients[id].inbox ELSE << >>
    IN  IF Len(new) > Len(old) THEN SubSeq(new, Len(old) + 1, Len(new)) ELSE << >>

\* The conditions under which a vote is to be accepted, the grace period
\* counted from the instant the current cycle began.
VoteAllowed(g, voter, target) ==
    /\ ~IsSome(g.winner)
    /\ get_player_status(g, voter) = Some("Alive")
    /\ (target = None \/ get_player_status(g, Unwrap(target)) = Some("Alive"))
    /\ DurationSince(now, hist.cycle_began) >= g.config.vote_grace_period
    /\ (g.cycle = "Day" \/ voter \in DOMAIN g.player_to_role)

\* C11: Game::cast_vote succeeds iff the game has no winner, the voter is
\* Alive, the target is None or Alive, the grace period has elapsed and the
\* cycle is Day or the voter has a special role; a success changes only
\* votes[voter], a rejection returns InvalidVote and changes nothing, and the
\* facade then appends no event to any inbox.
C11_CastVoteAcceptedIff ==
    [][/\ IsSome(active_game) =>
            LET g == Unwrap(active_game) IN
            \A voter \in Ids, target \in Targets :
                /\ cast_vote_ret(g, voter, target, now) = "Ok" <=> VoteAllowed(g, voter, target)
                /\ cast_vote_ret(g, voter, target, now) = "Ok" =>
                        cast_vote(g, voter, target, now) =
                            [g EXCEPT !.votes = MapInsert(@, voter, target)]
                /\ cast_vote_ret(g, voter, target, now) /= "Ok" =>
                        /\ cast_vote_ret(g, voter, target, now) = "InvalidVote"
                        /\ cast_vote(g, voter, target, now) = g
       /\ \A tok \in Tokens, target \in Targets :
            (/\ CastVote(tok, target)
             /\ in_active_game(active_game)
             /\ auth_client_ret(clients, tok).res = "Ok"
             /\ cast_vote_ret(Unwrap(active_game),
                              Unwrap(auth_client_ret(clients, tok).id), target, now) /= "Ok")
            => /\ active_game' = active_game
               /\ \A id \in DOMAIN clients'.clients : AppendedSeq(id) = << >>
    ]_vars

\* The latest cycle resolution: the game it was called on and its events.
Resolved == Unwrap(hist.resolved)

\* A cycle was resolved (the game had no winner) and the state is the one
\* right after.
JustResolved(cycle) ==
    /\ IsSome(hist.resolved)
    /\ ~IsSome(Resolved.game.winner)
    /\ Resolved.game.cycle = cycle

\* The positions of the events of the given types in an event list.
EventsOfType(ev, types) == {i \in DOMAIN ev : ev[i].type \in types}

\* The players Alive in g and Dead in g2.
Died(g, g2) ==
    {p \in DOMAIN g.player_status :
        g.player_status[p] = "Alive" /\ g2.player_status[p] = "Dead"}

\* The targets whose non-skip votes among the given voters, times 2, exceed n.
Majority(g, voters, n) ==
    {p \in DOMAIN g.player_status :
        Cardinality({v \in voters \cap DOMAIN g.votes : g.votes[v] = Some(p)}) * 2 > n}

\* C12: by Day a player dies and PlayerKilled{Day} is emitted iff the votes
\* for that player times 2 exceed the number of Alive players; otherwise
\* exactly one FailedVote{Day, Public} is emitted and nobody dies; at most one
\* target reaches the threshold.
C12_DayResolution ==
    JustResolved("Day") =>
        LET g == Resolved.game
            ev == Resolved.events
            g2 == Unwrap(active_game)
            majority == Majority(g, DOMAIN g.player_status, Cardinality(alive_players(g)))
            killed == EventsOfType(ev, {"PlayerKilled"})
            failed == EventsOfType(ev, {"FailedVote"})
        IN  /\ Cardinality(majority) <= 1
            /\ Died(g, g2) = majority
            /\ {ev[i].player : i \in killed} = majority
            /\ Cardinality(killed) = Cardinality(majority)
            /\ \A i \in killed : ev[i].cycle = "Day"
            /\ Cardinality(failed) = IF majority = {} THEN 1 ELSE 0
            /\ \A i \in failed : ev[i].cycle = "Day" /\ ev[i].channel = "Public"

\* A Day with a Dead player ended in a death though a vote went elsewhere.
C12_Witness ==
    /\ JustResolved("Day")
    /\ Died(Resolved.game, Unwrap(active_game)) /= {}
    /\ alive_players(Resolved.game) /= DOMAIN Resolved.game.player_status
    /\ \E v \in DOMAIN Resolved.game.votes :
            Resolved.game.votes[v] = None
            \/ Unwrap(Resolved.game.votes[v]) \notin Died(Resolved.game, Unwrap(active_game))

\* C13: by Night a player dies and PlayerKilled{Night} is emitted iff the
\* votes of Mafia-allegiance voters for that player times 2 exceed the number
\* of Alive Mafia and no Doctor voted for that player; with a majority on a
\* protected player there is neither PlayerKilled nor FailedVote and nobody
\* dies; without a majority exactly one FailedVote{Night, Mafia} is emitted.
C13_NightResolution ==
    JustResolved("Night") =>
        LET g == Resolved.game
            ev == Resolved.events
            g2 == Unwrap(active_game)
            mafia == {v \in DOMAIN g.player_status : get_player_allegiance(g, v) = "Mafia"}
            majority == Majority(g, mafia, Cardinality(alive_mafia(g)))
            protected == {p \in DOMAIN g.player_status :
                            \E d \in DOMAIN g.votes :
                                /\ get_player_role(g, d) = Some("Doctor")
                                /\ g.votes[d] = Some(p)}
            killed == EventsOfType(ev, {"PlayerKilled"})
            failed == EventsOfType(ev, {"FailedVote"})
        IN  /\ Died(g, g2) = majority \ protected
            /\ {ev[i].player : i \in killed} = majority \ protected
            /\ Cardinality(killed) = Cardinality(majority \ protected)
            /\ \A i \in killed : ev[i].cycle = "Night"
            /\ Cardinality(failed) = IF majority = {} THEN 1 ELSE 0
            /\ \A i \in failed : ev[i].cycle = "Night" /\ ev[i].channel = "Mafia"

\* A Night in which both Mafia voted for the player the Doctor protected.
C13_Witness ==
    /\ JustResolved("Night")
    /\ Cardinality(alive_mafia(Resolved.game)) = 2
    /\ \E p \in DOMAIN Resolved.game.player_status :
            /\ \A m \in alive_mafia(Resolved.game) :
                    m \in DOMAIN Resolved.game.votes /\ Resolved.game.votes[m] = Some(p)
            /\ \E d \in DOMAIN Resolved.game.votes :
                    /\ get_player_role(Resolved.game, d) = Some("Doctor")
                    /\ Resolved.game.votes[d] = Some(p)
    /\ Died(Resolved.game, Unwrap(active_game)) = {}
    /\ EventsOfType(Resolved.events, {"PlayerKilled", "FailedVote"}) = {}

\* C14: by Night, once the Mafia kill is applied, PlayerInvestigated is
\* emitted exactly for each Detective that is Alive and voted for a target
\* that is Alive, with the target's allegiance; none is emitted for a
\* Detective or a target that is Dead at that point.
C14_InvestigationsOfTheLiving ==
    JustResolved("Night") =>
        LET g == Resolved.game
            ev == Resolved.events
            g2 == Unwrap(active_game)
            investigated == EventsOfType(ev, {"PlayerInvestigated"})
            due == {d \in SeqRange(g.role_to_players["Detective"]) :
                        /\ g2.player_status[d] = "Alive"
                        /\ d \in DOMAIN g.votes
                        /\ IsSome(g.votes[d])
                        /\ g2.player_status[Unwrap(g.votes[d])] = "Alive"}
        IN  /\ {ev[i].actor : i \in investigated} = due
            /\ Cardinality(investigated) = Cardinality(due)
            /\ \A i \in investigated :
                    /\ Some(ev[i].target) = g.votes[ev[i].actor]
                    /\ ev[i].allegiance =
                            IF get_player_role(g, ev[i].target) = Some("Mafia")
                            THEN "Mafia" ELSE "Villagers"

\* The Alive players of g whose role is Mafia.
MafiaLeft(g) ==
    {p \in DOMAIN g.player_status :
        /\ g.player_status[p] = "Alive"
        /\ p \in DOMAIN g.player_to_role
        /\ g.player_to_role[p] = "Mafia"}

\* The Alive players of g.
PlayersLeft(g) == {p \in DOMAIN g.player_status : g.player_status[p] = "Alive"}

\* C15: after a cycle resolution the winner is Villagers iff no Mafia is
\* Alive, else Mafia iff 2 * Alive Mafia >= Alive players or day_num >= 100;
\* in every state without a winner a Mafia is Alive and 2 * Alive Mafia <
\* Alive players; a GameWon carries the whole player_to_role map and the side
\* stored in winner.
C15_TerminalChecks ==
    /\ (IsSome(active_game) /\ ~IsSome(Unwrap(active_game).winner)) =>
            /\ MafiaLeft(Unwrap(active_game)) /= {}
            /\ 2 * Cardinality(MafiaLeft(Unwrap(active_game)))
                    < Cardinality(PlayersLeft(Unwrap(active_game)))
    /\ (IsSome(hist.resolved) /\ ~IsSome(Resolved.game.winner)) =>
            LET g == Resolved.game
                ev == Resolved.events
                g2 == Unwrap(active_game)
                m == Cardinality(MafiaLeft(g2))
                a == Cardinality(PlayersLeft(g2))
                won == EventsOfType(ev, {"GameWon"})
            IN  /\ g2.winner = Some("Villagers") <=> m = 0
                /\ g2.winner = Some("Mafia") <=>
                        (m > 0 /\ (2 * m >= a \/ g.day_num >= MaxDayNum))
                /\ Cardinality(won) = IF IsSome(g2.winner) THEN 1 ELSE 0
                /\ \A i \in won :
                        /\ ev[i].player_to_role = g.player_to_role
                        /\ DOMAIN ev[i].player_to_role =
                                UNION {SeqRange(g.role_to_players[role]) : role \in Roles}
                        /\ Some(ev[i].side) = g2.winner

\* The Mafia won by the day limit alone, some special-role player being Dead.
C15_Witness ==
    /\ IsSome(hist.resolved)
    /\ ~IsSome(Resolved.game.winner)
    /\ Unwrap(active_game).winner = Some("Mafia")
    /\ 2 * Cardinality(MafiaLeft(Unwrap(active_game)))
            < Cardinality(PlayersLeft(Unwrap(active_game)))
    /\ \E p \in DOMAIN Resolved.game.player_to_role :
            Unwrap(active_game).player_status[p] = "Dead"
    /\ EventsOfType(Resolved.events, {"GameWon"}) /= {}

\* The active game has a winner.
GameIsWon == IsSome(active_game) /\ IsSome(Unwrap(active_game).winner)

\* C16: once the winner is set no cast_vote, poll_end_cycle or do_tick
\* changes the game, every cast_vote is rejected and poll_end_cycle returns
\* no event; the resolution that sets the winner returns exactly one GameWon
\* and no step sends a GameWon for a game already won.
C16_WinnerTerminal ==
    [][/\ GameIsWon =>
            LET g == Unwrap(active_game) IN
            /\ \A voter \in Ids, target \in Targets :
                    /\ cast_vote_ret(g, voter, target, now) = "InvalidVote"
                    /\ cast_vote(g, voter, target, now) = g
            /\ \A pick \in find_picks(g) \cup {None} :
                    poll_end_cycle(g, pick, now) = [game |-> g, events |-> << >>]
            /\ \/ active_game' = active_game
               \/ active_game' = None
               \/ /\ hist'.games = hist.games + 1
                  /\ IsSome(active_game') /\ ~IsSome(Unwrap(active_game').winner)
            /\ \A id \in DOMAIN clients'.clients :
                    \A i \in DOMAIN AppendedSeq(id) :
                        AppendedSeq(id)[i].type \notin {"GameWon", "VoteIssued", "SetCycle",
                            "PlayerKilled", "FailedVote", "PlayerInvestigated"}
       /\ (IsSome(active_game) /\ ~GameIsWon) =>
            /\ \A pick \in find_picks(Unwrap(active_game)) :
                    LET r == poll_end_cycle(Unwrap(active_game), pick, now) IN
                    IsSome(r.game.winner) =>
                        Cardinality(EventsOfType(r.events, {"GameWon"})) = 1
            /\ \A id \in DOMAIN clients'.clients :
                    Cardinality(EventsOfType(AppendedSeq(id), {"GameWon"})) <= 1
    ]_vars

\* A game with a winner whose events the clients have taken, so that do_tick
\* and cast_vote run on it again.
C16_Witness ==
    /\ GameIsWon
    /\ now > hist.cycle_began
    /\ \A id \in DOMAIN clients.clients : clients.clients[id].inbox = << >>
    /\ \E id \in DOMAIN clients.clients :
            ~clients.clients[id].disconnected /\ id \in alive_players(Unwrap(active_game))

\* C17: on every transition that is not terminal the cycle alternates between
\* Day and Night and day_num grows by exactly 1 iff the new cycle is Day; it
\* starts at 1 and never decreases; the SetCycle emitted carries the new cycle
\* and the new day_num.
C17_CycleAlternates ==
    /\ \A g0 \in ResolveStarts : g0.day_num = 1
    /\ (IsSome(hist.resolved) /\ ~IsSome(Resolved.game.winner)) =>
            LET g == Resolved.game
                ev == Resolved.events
                g2 == Unwrap(active_game)
                set == EventsOfType(ev, {"SetCycle"})
            IN  /\ g2.day_num >= g.day_num
                /\ IF IsSome(g2.winner)
                   THEN g2.cycle = g.cycle /\ g2.day_num = g.day_num /\ set = {}
                   ELSE /\ g2.cycle = (IF g.cycle = "Day" THEN "Night" ELSE "Day")
                        /\ g2.day_num = IF g2.cycle = "Day" THEN g.day_num + 1 ELSE g.day_num
                        /\ set = {Len(ev)}
                        /\ ev[Len(ev)].cycle = g2.cycle
                        /\ ev[Len(ev)].day_num = g2.day_num

\* A Day ended into the Night of the same day, after a Night had ended into
\* that Day.
C17_Witness ==
    /\ JustResolved("Day")
    /\ ~IsSome(Unwrap(active_game).winner)
    /\ Unwrap(active_game).cycle = "Night"
    /\ Unwrap(active_game).day_num = Resolved.game.day_num
    /\ Resolved.game.day_num = hist.first_day + 1

\* C18: a transition that is not terminal leaves votes empty; in every state
\* without a winner each voter recorded in votes is Alive, each target
\* recorded is a skip or an Alive player, and each vote was cast in the
\* current cycle.
C18_VotesOfTheCurrentCycle ==
    /\ (IsSome(hist.resolved) /\ ~IsSome(Resolved.game.winner)
            /\ ~IsSome(Unwrap(active_game).winner)) =>
            Unwrap(active_game).votes = << >>
    /\ (IsSome(active_game) /\ ~IsSome(Unwrap(active_game).winner)) =>
            LET g == Unwrap(active_game) IN
            \A v \in DOMAIN g.votes :
                /\ v \in PlayersLeft(g)
                /\ g.votes[v] = None \/ Unwrap(g.votes[v]) \in PlayersLeft(g)
                /\ v \in hist.voted

\* A vote recorded in a cycle that began after a player had died.
C18_Witness ==
    /\ IsSome(active_game)
    /\ ~IsSome(Unwrap(active_game).winner)
    /\ hist.resolved = None
    /\ hist.cycle_began = now
    /\ DOMAIN Unwrap(active_game).votes /= {}
    /\ PlayersLeft(Unwrap(active_game)) /= DOMAIN Unwrap(active_game).player_status
    /\ Unwrap(active_game).day_num > hist.first_day

\* The place of an event in a resolution: the death or the failure, the
\* investigations, the end of the game or the next cycle.
ResolutionRank(e) ==
    IF e.type \in {"PlayerKilled", "FailedVote"} THEN 1
    ELSE IF e.type = "PlayerInvestigated" THEN 2
    ELSE IF e.type \in {"GameWon", "SetCycle"} THEN 3
    ELSE 0

\* The events of a resolution within a sequence, in its order.
ResolutionEvents(q) == SelectSeq(q, LAMBDA e : ResolutionRank(e) > 0)

\* The shape of the list a resolution of the given cycle returns.
ResolutionShape(ev, cycle) ==
    /\ \A i \in DOMAIN ev : ResolutionRank(ev[i]) > 0
    /\ \A i, j \in DOMAIN ev : i < j => ResolutionRank(ev[i]) <= ResolutionRank(ev[j])
    /\ Cardinality({i \in DOMAIN ev : ResolutionRank(ev[i]) = 1}) <= 1
    /\ Cardinality({i \in DOMAIN ev : ResolutionRank(ev[i]) = 3}) = 1
    /\ cycle = "Day" => \A i \in DOMAIN ev : ResolutionRank(ev[i]) /= 2

\* The same event, but for the death message the facade chooses.
SameEvent(a, b) ==
    IF a.type = "PlayerKilled" /\ b.type = "PlayerKilled"
    THEN a.player = b.player /\ a.cycle = b.cycle
    ELSE a = b

\* q holds events of ev, in the order of ev.
InOrderOf(q, ev) ==
    \E f \in [DOMAIN q -> DOMAIN ev] :
        /\ \A i, j \in DOMAIN q : i < j => f[i] < f[j]
        /\ \A i \in DOMAIN q : SameEvent(q[i], ev[f[i]])

\* The resolutions that a step of the facade on game g may have run: by
\* do_tick on g, or by cast_vote on g with the vote recorded.
ResolutionsOf(g) ==
    LET polled == {g} \cup {cast_vote(g, voter, target, now) :
                                voter \in Ids, target \in Targets}
    IN  UNION {{poll_end_cycle(g1, pick, now) : pick \in find_picks(g1)} : g1 \in polled}

\* C19: a non-empty event list of a cycle resolution holds at most one
\* PlayerKilled or FailedVote first, then the PlayerInvestigated events (by
\* Night only), then exactly one GameWon or SetCycle; the facade appends the
\* events to each inbox in that order.
C19_ResolutionEventOrder ==
    [][(IsSome(active_game) /\ ~GameIsWon) =>
        LET g == Unwrap(active_game) IN
        /\ \A pick \in find_picks(g) :
                LET ev == poll_end_cycle(g, pick, now).events IN
                ev /= << >> => ResolutionShape(ev, g.cycle)
        /\ (IsSome(active_game') /\ CycleEnded(g, Unwrap(active_game'))) =>
                \E r \in ResolutionsOf(g) :
                    /\ r.game = Unwrap(active_game')
                    /\ ResolutionShape(r.events, g.cycle)
                    /\ \A id \in DOMAIN clients'.clients :
                            InOrderOf(ResolutionEvents(AppendedSeq(id)), r.events)
        /\ (IsSome(active_game') /\ ~CycleEnded(g, Unwrap(active_game'))) =>
                \A id \in DOMAIN clients'.clients : ResolutionEvents(AppendedSeq(id)) = << >>
    ]_vars

\* A client holds a Night's events: an investigation and the end of the
\* cycle or of the game after it.
C19_Witness ==
    \E id \in DOMAIN clients.clients :
        LET inbox == clients.clients[id].inbox IN
        \E i, j \in DOMAIN inbox :
            /\ i < j
            /\ inbox[i].type = "PlayerInvestigated"
            /\ inbox[j].type \in {"GameWon", "SetCycle"}

\* C20: an accepted cast_vote of the facade appends its VoteIssued to each
\* recipient's inbox before any event of the poll_end_cycle it triggers; the
\* channel is Public for a Day vote, Mafia for a Night vote of a Mafia voter,
\* Spectator for a Night vote of anyone else, by the cycle the vote was cast
\* in.
C20_VoteIssuedFirst ==
    [][(/\ in_active_game(active_game)
        /\ hist'.requests = hist.requests + 1
        /\ \A id \in DOMAIN clients.clients :
                /\ id \in DOMAIN clients'.clients
                /\ Len(clients'.clients[id].inbox) >= Len(clients.clients[id].inbox)
                /\ \A i \in DOMAIN AppendedSeq(id) :
                        AppendedSeq(id)[i].type = "VoteIssued"
                        \/ ResolutionRank(AppendedSeq(id)[i]) > 0) =>
        LET g == Unwrap(active_game) IN
        \A tok \in Tokens, target \in Targets :
            (/\ auth_client_ret(clients, tok).res = "Ok"
             /\ cast_vote_ret(g, Unwrap(auth_client_ret(clients, tok).id), target, now) = "Ok"
             /\ CastVote(tok, target)) =>
            LET voter == Unwrap(auth_client_ret(clients, tok).id)
                issued == [type |-> "VoteIssued", voter |-> voter, target |-> target,
                           channel |-> IF g.cycle = "Day" THEN "Public"
                                       ELSE IF get_player_role(g, voter) = Some("Mafia")
                                       THEN "Mafia" ELSE "Spectator"]
            IN  /\ \E id \in DOMAIN clients'.clients :
                        \E i \in DOMAIN AppendedSeq(id) : AppendedSeq(id)[i] = issued
                /\ \A id \in DOMAIN clients'.clients :
                        LET q == AppendedSeq(id) IN
                        /\ \A i \in DOMAIN q : q[i].type = "VoteIssued" => q[i] = issued
                        /\ Cardinality(EventsOfType(q, {"VoteIssued"})) <= 1
                        /\ \A i, j \in DOMAIN q :
                                (q[i].type = "VoteIssued" /\ ResolutionRank(q[j]) > 0) => i < j
    ]_vars

\* A client holds the VoteIssued of a Mafia's Night vote and, after it, the
\* event that ended that Night.
C20_Witness ==
    \E id \in DOMAIN clients.clients :
        LET inbox == clients.clients[id].inbox IN
        \E i, j \in DOMAIN inbox :
            /\ i < j
            /\ inbox[i].type = "VoteIssued"
            /\ inbox[i].channel = "Mafia"
            /\ \/ inbox[j].type = "SetCycle" /\ inbox[j].cycle = "Day"
               \/ inbox[j].type = "GameWon"

(***************************************************************************)
(* Messages, game start and the players of a game.                         *)
(***************************************************************************)
\* The channel a message of sender is to take in the present state.
ChannelAtSend(sender) ==
    IF ~IsSome(active_game) \/ GameIsWon THEN "Public"
    ELSE LET g == Unwrap(active_game) IN
         IF sender \notin DOMAIN g.player_status \/ g.player_status[sender] = "Dead"
         THEN "Spectator"
         ELSE IF g.cycle = "Day" THEN "Public"
         ELSE IF sender \in DOMAIN g.player_to_role /\ g.player_to_role[sender] = "Mafia"
         THEN "Mafia"
         ELSE "Spectator"

\* C21: send_message takes its channel from the state at the send: Public
\* with no game or a won game, Spectator for a Dead sender or one that is not
\* a player, else Public by Day, Mafia by Night for a Mafia sender, Spectator
\* by Night for a Villagers sender; in a won game the message reaches every
\* connected client.
C21_MessageChannelAtSend ==
    [][/\ \A id \in DOMAIN clients'.clients : \A e \in Appended(id) :
            (e.type = "MessageReceived" /\ IsSome(e.from)) =>
                /\ e.channel = ChannelAtSend(Unwrap(e.from))
                /\ GameIsWon =>
                        \A c \in DOMAIN clients'.clients :
                            ~clients'.clients[c].disconnected => e \in Appended(c)
       /\ (hist'.requests = hist.requests + 1 /\ active_game' = active_game) =>
            \A tok \in Tokens, text \in Texts :
                (auth_client_ret(clients, tok).res = "Ok" /\ SendMessage(tok, text)) =>
                    LET sender == Unwrap(auth_client_ret(clients, tok).id) IN
                    [type |-> "MessageReceived", channel |-> ChannelAtSend(sender),
                     contents |-> text, from |-> Some(sender)] \in Appended(sender)
    ]_vars

\* In a won game an Alive player holds the Public message of a Dead player.
C21_Witness ==
    /\ GameIsWon
    /\ \E id \in DOMAIN clients.clients : \E e \in Waiting(id) :
            /\ e.type = "MessageReceived" /\ IsSome(e.from)
            /\ e.channel = "Public"
            /\ Unwrap(e.from) /= id
            /\ get_player_status(Unwrap(active_game), Unwrap(e.from)) = Some("Dead")
            /\ get_player_status(Unwrap(active_game), id) = Some("Alive")

\* The latest Game::start: its configuration and what it returned.
Started == Unwrap(hist.started)

\* C22: Game::start fails and creates no game when the Mafia count is 0
\* (InvalidGameConfig), when 2 * Mafia >= the number of clients or the
\* special roles outnumber the clients (NotEnoughPlayers); it succeeds
\* otherwise, and the game it creates meets no win condition.
C22_StartValidation ==
    IsSome(hist.started) =>
        LET roles == Started.config.num_special_roles
            n == Cardinality(DOMAIN clients.client_name_to_id)
            expected ==
                IF roles["Mafia"] = 0 THEN "InvalidGameConfig"
                ELSE IF 2 * roles["Mafia"] >= n THEN "NotEnoughPlayers"
                ELSE IF roles["Mafia"] + roles["Doctor"] + roles["Detective"] > n
                THEN "NotEnoughPlayers"
                ELSE "Ok"
        IN  /\ Started.ret = expected
            /\ Started.ret /= "Ok" => ~IsSome(active_game)
            /\ Started.ret = "Ok" =>
                    /\ IsSome(active_game)
                    /\ Unwrap(active_game).config = Started.config
                    /\ ~IsSome(Unwrap(active_game).winner)
                    /\ MafiaLeft(Unwrap(active_game)) /= {}
                    /\ 2 * Cardinality(MafiaLeft(Unwrap(active_game)))
                            < Cardinality(PlayersLeft(Unwrap(active_game)))
                    /\ Cardinality(PlayersLeft(Unwrap(active_game))) = n
                    /\ Unwrap(active_game).day_num < MaxDayNum

\* A start refused only because the special roles outnumber the clients.
C22_Witness ==
    /\ IsSome(hist.started)
    /\ Started.ret = "NotEnoughPlayers"
    /\ Started.config.num_special_roles["Mafia"] > 0
    /\ 2 * Started.config.num_special_roles["Mafia"]
            < Cardinality(DOMAIN clients.client_name_to_id)
    /\ ~IsSome(active_game)

\* C23: in every state of a started game player_to_role and role_to_players
\* are inverses of each other, no player holds two roles, each role is held
\* by exactly as many distinct players as configured, and player_to_role has
\* as many entries as special roles are configured.
C23_RoleMapsInverse ==
    IsSome(active_game) =>
        LET g == Unwrap(active_game)
            p2r == g.player_to_role
            r2p == g.role_to_players
            counts == g.config.num_special_roles
        IN  /\ \A p \in DOMAIN p2r : \E i \in DOMAIN r2p[p2r[p]] : r2p[p2r[p]][i] = p
            /\ \A role \in Roles : \A i \in DOMAIN r2p[role] :
                    r2p[role][i] \in DOMAIN p2r /\ p2r[r2p[role][i]] = role
            /\ \A role \in Roles : \A i, j \in DOMAIN r2p[role] :
                    r2p[role][i] = r2p[role][j] => i = j
            /\ \A r1, r2 \in Roles :
                    r1 /= r2 => {r2p[r1][i] : i \in DOMAIN r2p[r1]}
                                    \cap {r2p[r2][i] : i \in DOMAIN r2p[r2]} = {}
            /\ \A role \in Roles : Len(r2p[role]) = counts[role]
            /\ Cardinality(DOMAIN p2r)
                    = counts["Mafia"] + counts["Doctor"] + counts["Detective"]
            /\ DOMAIN p2r \subseteq DOMAIN g.player_status

\* A game with two Doctors and every player in a special role, past its
\* first cycle.
C23_Witness ==
    /\ IsSome(active_game)
    /\ Len(Unwrap(active_game).role_to_players["Doctor"]) = 2
    /\ DOMAIN Unwrap(active_game).player_to_role = DOMAIN Unwrap(active_game).player_status
    /\ Unwrap(active_game).cycle /= Unwrap(active_game).config.start_cycle

\* The step starts a game.
GameStarts == hist'.games = hist.games + 1

\* What holds of the players of a game whatever set start_game took them
\* from: the set never changes while the game is held, a client that
\* connects meanwhile is no player, and who is no player has no status and no
\* role, speaks on the Spectator channel, and neither votes nor is voted for.
PlayersFixed ==
    /\ (IsSome(active_game) /\ IsSome(active_game') /\ ~GameStarts) =>
            DOMAIN Unwrap(active_game').player_status
                = DOMAIN Unwrap(active_game).player_status
    /\ IsSome(active_game') =>
            LET g == Unwrap(active_game')
                players == DOMAIN g.player_status
            IN  /\ ~GameStarts =>
                        \A id \in DOMAIN clients'.clients \ DOMAIN clients.clients :
                            id \notin players
                /\ \A id \in Ids \ players :
                        /\ get_player_status(g, id) = None
                        /\ get_player_role(g, id) = None
                        /\ in_active_game(active_game') =>
                                message_channel(active_game', id) = "Spectator"
                        /\ \A target \in Targets : cast_vote_ret(g, id, target, now) /= "Ok"
                        /\ \A voter \in Ids : cast_vote_ret(g, voter, Some(id), now) /= "Ok"

C25_LastVoteCounts ==
    LET g == Unwrap(active_game) IN
    /\ g.votes = hist.last_vote
    /\ DOMAIN g.votes = hist.voted
    /\ Cardinality(DOMAIN g.votes) = Cardinality(hist.voted)

\* A voter has just replaced its vote by a different one, next to the vote
\* of another voter.
C25_Witness ==
    LET g == Unwrap(active_game) IN
    /\ hist.revoted
    /\ Cardinality(DOMAIN g.votes) >= 2
    /\ g.votes = hist.last_vote

(***************************************************************************)
(* Names and ids of the registry.                                          *)
(***************************************************************************)
\* The registered clients that hold a name, read from the client records.
HoldersOf(name) ==
    {id \in DOMAIN clients.clients : clients.clients[id].info.name = name}

\* C26: no two registered clients hold the same name; connect with a name
\* held by a connected client returns ClientNameRegistered and leaves the
\* registry, every inbox included, as it was; connect with the name of a
\* registered, disconnected client returns Ok with that client's id.
C26_OneClientPerName ==
    /\ \A name \in Names : Cardinality(HoldersOf(name)) <= 1
    /\ \A name \in Names : \A id \in HoldersOf(name) :
        LET r == connect_client(clients, name, next_token, now) IN
        IF ~clients.clients[id].disconnected
        THEN r.ret.res = "ClientNameRegistered" /\ r.cs = clients
        ELSE /\ r.ret.res = "Ok" /\ r.ret.id = Some(id)
             /\ DOMAIN r.cs.clients = DOMAIN clients.clients
             /\ r.cs.clients[id].info = clients.clients[id].info

\* One name is held by a connected client that has waiting events, another
\* by a disconnected client, and some client has reconnected before.
C26_Witness ==
    /\ \E id \in DOMAIN clients.clients :
        ~clients.clients[id].disconnected /\ clients.clients[id].inbox /= << >>
    /\ \E id \in DOMAIN clients.clients : clients.clients[id].disconnected
    /\ hist.rotated /= {}

\* The ids held by registered clients, read from the client map.
IdsHeld == DOMAIN clients.clients

\* Whether connect_client on registry cs with a name nobody holds assigns the
\* lowest id no client of cs holds, or, with every id held, is refused and
\* changes nothing.
AssignsLowestFree(cs, name) ==
    LET r == connect_client(cs, name, next_token, now)
        free == Ids \ DOMAIN cs.clients
    IN  IF free = {}
        THEN r.ret.res = "TooManyClientsRegistered" /\ r.cs = cs
        ELSE /\ r.ret = Ok(Some(Min(free)), Some(next_token))
             /\ DOMAIN r.cs.clients = DOMAIN cs.clients \cup {Min(free)}
             /\ r.cs.clients[Min(free)].info = [name |-> name, id |-> Min(free)]
             /\ \A id \in DOMAIN cs.clients : r.cs.clients[id] = cs.clients[id]

\* C27: connect with a name nobody holds assigns the lowest id of the pool
\* (0..63 in the program, Ids here) that no registered client holds, and is
\* refused with TooManyClientsRegistered, changing nothing, exactly when
\* every id is held; every client is registered under its own id, the
\* claimed ids are the keys of the client map (so no more clients than ids
\* coexist), and an id freed by a purge is free for the next connect.
C27_LowestFreeId ==
    /\ clients.claimed_ids = IdsHeld
    /\ IdsHeld \subseteq Ids
    /\ Cardinality(IdsHeld) <= MAX_PLAYERS
    /\ \A id \in IdsHeld : clients.clients[id].info.id = id
    /\ \A name \in 1..(MAX_PLAYERS + 1) :
        HoldersOf(name) = {} => AssignsLowestFree(clients, name)
    /\ LET p == purge_disconnected_clients(clients, config.max_client_inactive_time,
                                           now).cs
       IN  /\ p.claimed_ids = DOMAIN p.clients
           /\ \A name \in 1..(MAX_PLAYERS + 1) :
                name \notin {p.clients[id].info.name : id \in DOMAIN p.clients}
                    => AssignsLowestFree(p, name)

\* A connect was refused with every id held, and later a client registered
\* anew (no client ever reconnected) under an id that a purge had freed.
C27_Witness ==
    /\ hist.refused
    /\ hist.rotated = {}
    /\ \E id \in IdsHeld : clients.clients[id].session_token >= MAX_PLAYERS

(***************************************************************************)
(* Disconnected clients and the inboxes.                                   *)
(***************************************************************************)
\* C28: for a client marked disconnected, disconnect_client returns
\* ClientDisconnected and auth_client with the client's session token
\* returns ClientDisconnected (so every facade request made with the token,
\* which authenticates first, is rejected), neither changing the registry;
\* for an id that is not registered disconnect_client returns
\* InvalidClientId and changes nothing.
C28_DisconnectedRefused ==
    /\ \A id \in IdsHeld : clients.clients[id].disconnected =>
        LET tok == clients.clients[id].session_token IN
        /\ disconnect_client(clients, id) =
                [cs |-> clients, ret |-> ErrId("ClientDisconnected", id)]
        /\ auth_client_ret(clients, tok) = ErrId("ClientDisconnected", id)
        /\ auth_client_cs(clients, tok, now) = clients
    /\ \A id \in Ids \ IdsHeld :
        disconnect_client(clients, id) =
            [cs |-> clients, ret |-> ErrId("InvalidClientId", id)]

\* What send_event and take_events do in the current registry: an event
\* changes the inboxes of the registered, connected recipients only, and
\* nothing else, whoever else is addressed; take_events empties the inbox it
\* returns, so that the next call returns nothing; take_events for an id
\* that is not registered returns nothing and changes nothing.
InboxCalls ==
    /\ \A to \in InboxRecipients, event \in RegEvents :
        LET r == send_event(clients, to, event) IN
        /\ DOMAIN r.clients = IdsHeld
        /\ \A id \in IdsHeld :
            r.clients[id] =
                IF id \in to /\ ~clients.clients[id].disconnected
                THEN [clients.clients[id] EXCEPT !.inbox = Append(@, event)]
                ELSE clients.clients[id]
        /\ [r EXCEPT !.clients = clients.clients] = clients
    /\ \A id \in IdsHeld :
        take_events_ret(take_events_cs(clients, id), id) = << >>
    /\ \A id \in Ids \ IdsHeld :
        take_events_ret(clients, id) = << >> /\ take_events_cs(clients, id) = clients

\* C29 as stated: for every registered client, what its take_events calls
\* have returned, followed by what waits in its inbox, is the sequence of
\* events sent to it while it was registered and not disconnected (so once
\* the inbox is taken the concatenation of the results equals that
\* sequence); events to absent or disconnected clients are dropped, a second
\* take_events returns nothing, and so does take_events for an unknown id.
C29_TakenIsSent ==
    /\ \A id \in IdsHeld :
        hist.taken[id] \o clients.clients[id].inbox = hist.sent[id]
    /\ InboxCalls

\* C29 amended: the same, for the events sent to the client while it was
\* registered and not disconnected less those that were still waiting in its
\* inbox when it was disconnected.
C29_TakenIsKept ==
    /\ \A id \in IdsHeld :
        hist.taken[id] \o clients.clients[id].inbox = hist.kept[id]
    /\ InboxCalls

\* A client has lost an event to a disconnect, has reconnected and has taken
\* an event sent since.
C29_Witness ==
    \E id \in IdsHeld :
        /\ ~clients.clients[id].disconnected
        /\ hist.sent[id] /= hist.kept[id]
        /\ hist.taken[id] /= << >>
        /\ hist.taken[id] = hist.kept[id]

\* C30: the inbox of a client marked disconnected is empty from the
\* disconnect on (what waited is discarded, what is sent meanwhile is not
\* stored), and it is empty in the state a reconnect leaves, so that
\* take_events returns to the reconnected session no event sent before or
\* during the disconnection.
C30_ReconnectedInboxEmpty ==
    [][/\ \A id \in DOMAIN clients'.clients :
            clients'.clients[id].disconnected => clients'.clients[id].inbox = << >>
       /\ \A id \in IdsHeld \cap DOMAIN clients'.clients :
            clients.clients[id].disconnected /\ ~clients'.clients[id].disconnected
                => /\ clients'.clients[id].inbox = << >>
                   /\ take_events_ret(clients', id) = << >>]_vars

\* A client that lost a waiting event to a disconnect has reconnected and
\* has taken nothing since; its inbox is empty.
C30_Witness ==
    /\ hist.rotated /= {}
    /\ \E id \in IdsHeld :
        /\ ~clients.clients[id].disconnected
        /\ hist.sent[id] /= << >>
        /\ hist.kept[id] = << >>
        /\ hist.taken[id] = << >>
        /\ clients.clients[id].inbox = << >>

(***************************************************************************)
(* Connection events of the facade.                                        *)
(***************************************************************************)
\* The step is a successful connect_client of the facade that leaves client
\* id with the token just issued.
Joined(id) ==
    /\ next_token' = next_token + 1
    /\ id \in DOMAIN clients'.clients
    /\ clients'.clients[id].session_token = next_token

\* C31: a successful connect_client of the facade, new connection or
\* reconnection, appends exactly one ClientConnected carrying the joining
\* client's info to the inbox of every other connected client; the joining
\* client's inbox then holds one event, the SetServerInfo made for it (the
\* registered clients, the game as that client may see it).
C31_ConnectAnnounced ==
    [][\A id \in Ids : Joined(id) =>
        /\ \A c \in DOMAIN clients'.clients \ {id} :
            AppendedSeq(c) =
                IF clients'.clients[c].disconnected THEN << >>
                ELSE <<[type |-> "ClientConnected", info |-> clients'.clients[id].info]>>
        /\ clients'.clients[id].inbox =
            <<[type |-> "SetServerInfo",
               connected_clients |->
                    [c \in DOMAIN clients'.clients |-> clients'.clients[c].info],
               active_game |-> get_game_info_for(active_game, id, now)]>>
    ]_vars

\* A client that joined during a game holds its SetServerInfo, and another
\* client holds the ClientConnected about it.
C31_Witness ==
    /\ IsSome(active_game)
    /\ \E id, c \in DOMAIN clients.clients :
        /\ c /= id
        /\ Len(clients.clients[id].inbox) = 1
        /\ clients.clients[id].inbox[1].type = "SetServerInfo"
        /\ IsSome(clients.clients[id].inbox[1].active_game)
        /\ \E i \in DOMAIN clients.clients[c].inbox :
            clients.clients[c].inbox[i] =
                [type |-> "ClientConnected", info |-> clients.clients[id].info]

\* How many ClientDisconnected(c) the step appends to the inbox of r.
DisconnectedNotices(r, c) ==
    Cardinality({i \in DOMAIN AppendedSeq(r) :
                    AppendedSeq(r)[i] = [type |-> "ClientDisconnected", id |-> c]})

\* The clients registered and connected after the step.
Remaining == {r \in DOMAIN clients'.clients : ~clients'.clients[r].disconnected}

\* The step marks the connected client c disconnected.
Disconnects(c) ==
    /\ c \in DOMAIN clients.clients /\ ~clients.clients[c].disconnected
    /\ c \in DOMAIN clients'.clients /\ clients'.clients[c].disconnected

\* The step evicts the registered client c.
Evicts(c) == c \in DOMAIN clients.clients /\ c \notin DOMAIN clients'.clients

\* C32: the step that loses a client (a disconnect of a connected client, or
\* the eviction of a client not marked disconnected) appends exactly one
\* ClientDisconnected(c) to the inbox of every client that remains connected
\* and leaves none in the inbox of c; the eviction of a client already marked
\* disconnected appends none, and no other step appends a ClientDisconnected.
C32_OneNoticePerLoss ==
    [][\A c \in Ids :
        LET lost == \/ Disconnects(c)
                    \/ Evicts(c) /\ ~clients.clients[c].disconnected
        IN  /\ \A r \in Remaining \ {c} : DisconnectedNotices(r, c) = IF lost THEN 1 ELSE 0
            /\ \A r \in DOMAIN clients'.clients \ Remaining : AppendedSeq(r) = << >>
            /\ Disconnects(c) => clients'.clients[c].inbox = << >>
            /\ c \in Remaining => DisconnectedNotices(c, c) = 0
    ]_vars

\* A connected client holds the ClientDisconnected of a client that a purge
\* evicted for inactivity.
C32_Witness ==
    \E c \in Ids \ DOMAIN clients.clients : \E r \in DOMAIN clients.clients :
        /\ ~clients.clients[r].disconnected
        /\ [type |-> "ClientDisconnected", id |-> c] \in Waiting(r)

(***************************************************************************)
(* start_game of the facade and the players of the held game.              *)
(***************************************************************************)
\* The events an outcome r of an operation appends to the inbox of client c.
NewEvents(r, c) ==
    LET new == r.cs.clients[c].inbox
        old == IF c \in DOMAIN clients.clients THEN clients.clients[c].inbox ELSE << >>
    IN  IF Len(new) > Len(old) THEN SubSeq(new, Len(old) + 1, Len(new)) ELSE << >>

\* C33: in every reachable state in which start_game is called, and for
\* every outcome it may have there:
\* it returns GameInProgress exactly when a game without a winner is held,
\* and then the registry, the inboxes and the game are as before; when it
\* returns Ok a fresh game is held in place of whatever was held and every
\* connected client has got exactly one SetGame, the one made for it; when
\* it fails on a precondition of Game::start, nobody has got a SetGame, the
\* game held is as before and in_active_game is false.
C33_StartGameOutcomes ==
    (~poisoned /\ hist.games < MaxLobbyGames /\ InboxesBelow(clients, MaxInbox)) =>
    \A cfg \in LobbyConfigs :
    \A r \in start_game(clients, active_game, config, cfg, now) :
        LET SetGames(c) == {i \in DOMAIN NewEvents(r, c) : NewEvents(r, c)[i].type = "SetGame"}
        IN
        /\ r.ret = "GameInProgress" <=>
                (IsSome(active_game) /\ Unwrap(active_game).winner = None)
        /\ r.ret = "GameInProgress" => r.cs = clients /\ r.ag = active_game
        /\ r.ret = "Ok" =>
            /\ IsSome(r.ag) /\ r.ag /= active_game
            /\ Unwrap(r.ag).winner = None /\ Unwrap(r.ag).votes = << >>
            /\ Unwrap(r.ag).day_num = 1 /\ Unwrap(r.ag).cycle = cfg.start_cycle
            /\ \A c \in DOMAIN r.cs.clients :
                IF r.cs.clients[c].disconnected THEN SetGames(c) = {}
                ELSE /\ Cardinality(SetGames(c)) = 1
                     /\ \A i \in SetGames(c) :
                            NewEvents(r, c)[i].game = Unwrap(get_game_info_for(r.ag, c, now))
        /\ r.ret \notin {"Ok", "GameInProgress"} =>
            /\ r.ag = active_game
            /\ ~(IsSome(r.ag) /\ Unwrap(r.ag).winner = None)
            /\ \A c \in DOMAIN r.cs.clients : SetGames(c) = {}

\* A won game is held, and with the clients now registered start_game
\* replaces it under one configuration and fails on a precondition under
\* another.
C33_Witness ==
    /\ GameIsWon
    /\ ~poisoned /\ hist.games < MaxLobbyGames /\ InboxesBelow(clients, MaxInbox)
    /\ \E cfg \in LobbyConfigs :
        \E r \in start_game(clients, active_game, config, cfg, now) : r.ret = "Ok"
    /\ \E cfg \in LobbyConfigs :
        \E r \in start_game(clients, active_game, config, cfg, now) :
            r.ret = "NotEnoughPlayers"

(***************************************************************************)
(* Termination of a game.                                                  *)
(***************************************************************************)
\* C34: day_num never exceeds 100; a cycle that ends with day_num at 100
\* leaves a winner, the Mafia unless no Mafia is Alive; and with the clock
\* running and poll_end_cycle called again and again, every game gets a
\* winner.
C34_GameTerminates ==
    /\ [](Unwrap(active_game).day_num <= MaxDayNum)
    /\ [][(/\ ~IsSome(Unwrap(active_game).winner)
           /\ Unwrap(active_game).day_num >= MaxDayNum
           /\ CycleEnded(Unwrap(active_game), Unwrap(active_game')))
          => Unwrap(active_game').winner =
                IF MafiaLeft(Unwrap(active_game')) = {} THEN Some("Villagers")
                ELSE Some("Mafia")]_vars
    /\ <>GameIsWon

\* The Mafia has won on day 100 with everybody Alive: by the day limit.
C34_Witness ==
    LET g == Unwrap(active_game) IN
    /\ g.winner = Some("Mafia")
    /\ g.day_num = MaxDayNum
    /\ PlayersLeft(g) = DOMAIN g.player_status


(***************************************************************************)
(* The recipients of a vote that ends its cycle.                           *)
(***************************************************************************)
\* C35: a VoteIssued goes to the clients entitled to its channel when the vote
\* was cast: no client that was an Alive Villagers player before the step
\* receives a VoteIssued of channel Mafia, and no client that was an Alive
\* player before the step, other than the voter, receives one of channel
\* Spectator, also when the same cast_vote resolves the cycle and kills it.
C35_VoteRecipientsAtCast ==
    [][IsSome(active_game) =>
        \A c \in DOMAIN clients'.clients :
            \A i \in DOMAIN AppendedSeq(c) :
                LET e == AppendedSeq(c)[i]
                    g == Unwrap(active_game)
                IN  e.type = "VoteIssued" =>
                        /\ e.channel = "Mafia" => c \notin alive_villagers(g)
                        /\ e.channel = "Spectator" => c \notin alive_players(g) \ {e.voter}
    ]_vars


(***************************************************************************)
(* Concurrent callers of the facade.  Each thread takes the RwLock of the  *)
(* server in the mode of its operation, computes what it sends, pushes the *)
(* events one inbox at a time (each push locks that inbox's mutex), and    *)
(* releases the lock after the last push.                                  *)
(***************************************************************************)
NumThreads == 2
Threads == 1..NumThreads

\* One explored run begins at most MaxConcOps operations that send events.
MaxConcOps == 2

ConcTexts == {"hello", "bye"}

\* The elements of a set of ids in ascending order.
RECURSIVE Ascending(_)
Ascending(S) ==
    IF S = {} THEN << >>
    ELSE LET m == CHOOSE x \in S : \A y \in S : x <= y IN <<m>> \o Ascending(S \ {m})

\* A facade in which every operation takes the read lock.
lock_mode_read(op) == "read"

\* The lock each operation of MafiaGameServer takes: self.0.read() in
\* broadcast_message and send_message, self.0.write() in the others.
lock_mode(op) ==
    IF op \in {"broadcast_message", "send_message"} THEN "read" ELSE "write"

\* ClientState::send_event, push by push: one push per present, not
\* disconnected client of `to` (the registry is not modified while the lock
\* is held, so every caller walks the clients in the same order).
send_event_pushes(cs, to, event) ==
    LET q == Ascending({id \in to \cap DOMAIN cs.clients : ~cs.clients[id].disconnected})
    IN  [k \in DOMAIN q |-> [to |-> q[k], event |-> event]]

\* MafiaGameServerInner::send_event, push by push.
server_send_event_pushes(cs, ag, cfg, event, msg) ==
    send_event_pushes(cs, get_event_visibility(cs, ag, event),
                      IF event.type = "PlayerKilled" /\ cfg.randomize_death_message
                      THEN [event EXCEPT !.death_message = msg]
                      ELSE event)

\* The loop `for event in events { slf.send_event(event) }`, push by push.
RECURSIVE server_send_events_pushes(_, _, _, _, _)
server_send_events_pushes(cs, ag, cfg, events, msg) ==
    IF events = << >> THEN << >>
    ELSE server_send_event_pushes(cs, ag, cfg, Head(events), msg)
            \o server_send_events_pushes(cs, ag, cfg, Tail(events), msg)

\* A thread outside the facade.
Idle == [op |-> "idle", todo |-> << >>, done |-> {}]

\* A thread inside operation op with the pushes todo ahead of it; with no
\* push to make, the operation returns and drops the lock at once.
Running(op, todo) ==
    IF todo = << >> THEN Idle ELSE [op |-> op, todo |-> todo, done |-> {}]

\* RwLock: a writer excludes every other holder, a reader excludes writers.
\* The threads being interchangeable, the lowest idle one makes the call.
CanLock(t, op) ==
    /\ hist.threads[t].op = "idle"
    /\ \A u \in Threads : u < t => hist.threads[u].op /= "idle"
    /\ \A u \in Threads \ {t} :
        \/ hist.threads[u].op = "idle"
        \/ lock_mode(op) = "read" /\ lock_mode(hist.threads[u].op) = "read"

\* The history of a concurrent run: per thread the operation it is in, the
\* pushes it has yet to make and the clients it has pushed to since their
\* latest take_events; per id every event pushed to that inbox, in order;
\* the batch the latest take_events returned.
HistConc ==
    [threads |-> [t \in Threads |-> Idle],
     log |-> [id \in Ids |-> << >>],
     batch |-> None]
    @@ [HistInit EXCEPT !.names_used = MaxGamePlayers, !.games = 1]

\* Three connected clients with empty inboxes in the first night of a game.
InitConc ==
    /\ clients = RegistryWith(MaxGamePlayers)
    /\ active_game = Some(start(Config("Night", TRUE, 0, RoleCounts(1, 0, 1)),
                                [i \in 1..MaxGamePlayers |-> i - 1], 0))
    /\ config \in ServerConfigs
    /\ now = 0
    /\ next_token = MaxGamePlayers
    /\ poisoned = FALSE
    /\ hist = HistConc

\* The thread enters op and leaves it with the given pushes to make.
Enter(t, op, todo) ==
    hist' = [hist EXCEPT !.threads[t] = Running(op, todo), !.requests = @ + 1]

\* MafiaGameServer::broadcast_message up to its first push.
ConcBroadcastMessage(t, text) ==
    /\ ~poisoned
    /\ hist.requests < MaxConcOps
    /\ CanLock(t, "broadcast_message")
    /\ Enter(t, "broadcast_message",
             server_send_event_pushes(clients, active_game, config,
                    [type |-> "MessageReceived", channel |-> "Public",
                     contents |-> text, from |-> None], 0))
    /\ UNCHANGED <<clients, active_game, config, now, next_token, poisoned>>

\* MafiaGameServer::send_message up to its first push.
ConcSendMessage(t, tok, text) ==
    /\ ~poisoned
    /\ hist.requests < MaxConcOps
    /\ CanLock(t, "send_message")
    /\ LET a == auth_client_ret(clients, tok) IN
        IF a.res /= "Ok"
        THEN UNCHANGED <<clients, hist>>
        ELSE /\ clients' = auth_client_cs(clients, tok, now)
             /\ Enter(t, "send_message",
                      server_send_event_pushes(clients', active_game, config,
                            [type |-> "MessageReceived",
                             channel |-> message_channel(active_game, Unwrap(a.id)),
                             contents |-> text, from |-> a.id], 0))
    /\ UNCHANGED <<active_game, config, now, next_token, poisoned>>

\* MafiaGameServer::cast_vote up to its first push.
ConcCastVote(t, tok, target) ==
    /\ ~poisoned
    /\ hist.requests < MaxConcOps
    /\ CanLock(t, "cast_vote")
    /\ LET a == auth_client_ret(clients, tok) IN
        IF a.res /= "Ok"
        THEN /\ poisoned' = (a.res = "Panic")
             /\ UNCHANGED <<clients, active_game, hist>>
        ELSE
        LET id == Unwrap(a.id)
            cs1 == auth_client_cs(clients, tok, now)
        IN  IF ~in_active_game(active_game)
                \/ cast_vote_ret(Unwrap(active_game), id, target, now) /= "Ok"
            THEN /\ clients' = cs1
                 /\ UNCHANGED <<active_game, poisoned, hist>>
            ELSE
            LET g1 == cast_vote(Unwrap(active_game), id, target, now)
                issued == [type |-> "VoteIssued", voter |-> id, target |-> target,
                           channel |-> vote_channel(g1, id)]
            IN  \E pick \in find_picks(g1) :
                LET r == poll_end_cycle(g1, pick, now) IN
                \E msg \in batch_death_messages(config, r.events) :
                /\ active_game' = Some(r.game)
                /\ clients' = cs1
                /\ Enter(t, "cast_vote",
                         server_send_events_pushes(cs1, Some(r.game), config,
                                                   <<issued>> \o r.events, msg))
                /\ UNCHANGED poisoned
    /\ UNCHANGED <<config, now, next_token>>

\* MafiaGameServer::do_tick up to its first push.
ConcDoTick(t) ==
    /\ ~poisoned
    /\ hist.requests < MaxConcOps
    /\ CanLock(t, "do_tick")
    /\ IF IsSome(active_game)
       THEN LET g == Unwrap(active_game) IN
            \E pick \in find_picks(g) :
            LET r == poll_end_cycle(g, pick, now) IN
            \E msg \in batch_death_messages(config, r.events) :
            /\ r.events /= << >>
            /\ active_game' = Some(r.game)
            /\ Enter(t, "do_tick",
                     server_send_events_pushes(clients, Some(r.game), config, r.events, msg))
            /\ UNCHANGED clients
       ELSE /\ clients' \in inner_purge_results(clients, config, now)
            /\ UNCHANGED <<active_game, hist>>
    /\ UNCHANGED <<config, now, next_token, poisoned>>

\* MafiaGameServer::connect_client up to its first push.
ConcConnectClient(t, name) ==
    /\ ~poisoned
    /\ hist.requests < MaxConcOps
    /\ next_token < MaxTokens
    /\ CanLock(t, "connect_client")
    /\ LET r == connect_client(clients, name, next_token, now) IN
        IF r.ret.res /= "Ok"
        THEN UNCHANGED <<clients, next_token, hist>>
        ELSE LET id == Unwrap(r.ret.id)
                 connected == [c \in DOMAIN r.cs.clients |-> r.cs.clients[c].info]
             IN /\ clients' = r.cs
                /\ next_token' = next_token + 1
                /\ hist' = [HistConnect(hist, clients, name, r) EXCEPT
                        !.requests = @ + 1,
                        !.threads[t] = Running("connect_client",
                            server_send_event_pushes(r.cs, active_game, config,
                                [type |-> "ClientConnected", info |-> r.cs.clients[id].info], 0)
                            \o send_event_pushes(r.cs, {id},
                                [type |-> "SetServerInfo",
                                 connected_clients |-> connected,
                                 active_game |-> get_game_info_for(active_game, id, now)]))]
    /\ UNCHANGED <<active_game, config, now, poisoned>>

\* MafiaGameServer::disconnect_client up to its first push.
ConcDisconnectClient(t, tok) ==
    /\ ~poisoned
    /\ hist.requests < MaxConcOps
    /\ CanLock(t, "disconnect_client")
    /\ LET a == auth_client_ret(clients, tok) IN
        IF a.res /= "Ok"
        THEN /\ poisoned' = (a.res = "Panic")
             /\ UNCHANGED <<clients, hist>>
        ELSE LET r == disconnect_client(auth_client_cs(clients, tok, now), Unwrap(a.id)) IN
             /\ clients' = r.cs
             /\ Enter(t, "disconnect_client",
                      send_event_pushes(r.cs, all_client_ids(r.cs),
                            [type |-> "ClientDisconnected", id |-> Unwrap(a.id)]))
             /\ UNCHANGED poisoned
    /\ UNCHANGED <<active_game, config, now, next_token>>

\* One push of ClientState::send_event: client.inbox.lock().unwrap().push_back;
\* after its last push the operation returns and drops the lock.
ConcPush(t) ==
    /\ hist.threads[t].todo /= << >>
    /\ LET th == hist.threads[t]
           item == Head(th.todo)
       IN  /\ clients' = [clients EXCEPT !.clients[item.to].inbox = Append(@, item.event)]
           /\ hist' = [hist EXCEPT
                        !.log[item.to] = Append(@, item.event),
                        !.threads[t] =
                            IF Tail(th.todo) = << >> THEN Idle
                            ELSE [th EXCEPT !.todo = Tail(@), !.done = @ \cup {item.to}]]
    /\ UNCHANGED <<active_game, config, now, next_token, poisoned>>

\* MafiaGameServer::take_events, the whole call: it pushes nothing.
ConcTakeEvents(t, tok) ==
    /\ ~poisoned
    /\ CanLock(t, "take_events")
    /\ LET a == auth_client_ret(clients, tok) IN
        IF a.res /= "Ok"
        THEN /\ poisoned' = (a.res = "Panic")
             /\ UNCHANGED <<clients, hist>>
        ELSE LET id == Unwrap(a.id) IN
             /\ clients' = take_events_cs(auth_client_cs(clients, tok, now), id)
             /\ hist' = [hist EXCEPT
                            !.batch = Some(take_events_ret(clients, id)),
                            !.threads = [u \in Threads |-> [@[u] EXCEPT !.done = @ \ {id}]]]
             /\ UNCHANGED poisoned
    /\ UNCHANGED <<active_game, config, now, next_token>>

NextConc ==
    \/ AdvanceTime
    \/ \E t \in Threads, text \in ConcTexts : ConcBroadcastMessage(t, text)
    \/ \E t \in Threads, tok \in Tokens, text \in ConcTexts : ConcSendMessage(t, tok, text)
    \/ \E t \in Threads, tok \in Tokens, target \in Targets : ConcCastVote(t, tok, target)
    \/ \E t \in Threads : ConcDoTick(t)
    \/ \E t \in Threads, name \in OfferedNames : ConcConnectClient(t, name)
    \/ \E t \in Threads, tok \in Tokens : ConcDisconnectClient(t, tok)
    \/ \E t \in Threads : ConcPush(t)
    \/ \E t \in Threads, tok \in Tokens : ConcTakeEvents(t, tok)

SpecConc == InitConc /\ [][NextConc]_vars


(***************************************************************************)
(* What concurrent callers may observe in the inboxes.                     *)
(***************************************************************************)
\* The step is a take_events that returns events to the connected client c.
Drained(c) ==
    /\ c \in DOMAIN clients.clients /\ c \in DOMAIN clients'.clients
    /\ ~clients.clients[c].disconnected
    /\ Len(clients'.clients[c].inbox) < Len(clients.clients[c].inbox)

\* C36: the events of one cast_vote or one do_tick reach an inbox atomically
\* with respect to take_events: no take_events of a client returns a batch
\* holding an event such an operation has pushed to that client while the
\* operation has a later event still to push to it.
C36_BatchesWhole ==
    [][\A c \in Ids : Drained(c) =>
        \A t \in Threads :
            LET th == hist.threads[t] IN
            th.op \in {"cast_vote", "do_tick"} =>
                ~(c \in th.done /\ \E k \in DOMAIN th.todo : th.todo[k].to = c)
    ]_vars

\* A take_events has returned a batch in which a PlayerKilled is followed by
\* the GameWon or SetCycle of the same resolution.
C36_Witness ==
    /\ IsSome(hist.batch)
    /\ \E i, j \in DOMAIN Unwrap(hist.batch) :
        /\ i < j
        /\ Unwrap(hist.batch)[i].type = "PlayerKilled"
        /\ Unwrap(hist.batch)[j].type \in {"GameWon", "SetCycle"}

\* The event occurs exactly once in the sequence.
Once(q, e) == Cardinality({i \in DOMAIN q : q[i] = e}) = 1

\* The place of an event of the sequence.
Pos(q, e) == CHOOSE i \in DOMAIN q : q[i] = e

\* C37: any two events both delivered (once each) to two clients were pushed
\* to the two inboxes in the same relative order.
C37_SameOrderEverywhere ==
    \A a, b \in Ids :
        LET qa == hist.log[a]
            qb == hist.log[b]
        IN  \A e1, e2 \in SeqRange(qa) \cap SeqRange(qb) :
                (Once(qa, e1) /\ Once(qa, e2) /\ Once(qb, e1) /\ Once(qb, e2)) =>
                    (Pos(qa, e1) < Pos(qa, e2) <=> Pos(qb, e1) < Pos(qb, e2))


(***************************************************************************)
(* The players of the held game and the registry.                          *)
(***************************************************************************)
\* C38: while one game record is held, won or not, every step leaves each of
\* its players registered under the same id as the same client (id and name),
\* a failing start_game included.
C38_PlayersStayRegistered ==
    [][(IsSome(active_game) /\ IsSome(active_game') /\ hist'.games = hist.games) =>
        \A p \in DOMAIN Unwrap(active_game).player_status :
            p \in DOMAIN clients.clients =>
                /\ p \in DOMAIN clients'.clients
                /\ clients'.clients[p].info = clients.clients[p].info
    ]_vars


(***************************************************************************)
(* The client-side mirror: mafia-game-client-lib/src/lib.rs.  Every client *)
(* of the lobby owns a MafiaClient, polls take_events and applies what it  *)
(* gets, in order.                                                         *)
(***************************************************************************)
MAX_MESSAGES_HISTORY == 200

\* MafiaClient::new
MafiaClientNew(server_info) == [server_info |-> server_info, messages |-> << >>]

\* An apply_event that keeps the votes of the cycle that ended.
apply_event_keep(m, event) ==
    LET game == Unwrap(m.server_info.active_game) IN
    CASE event.type = "SetServerInfo" ->
            [m EXCEPT !.server_info = [connected_clients |-> event.connected_clients,
                                       active_game |-> event.active_game]]
      [] event.type = "SetGame" -> [m EXCEPT !.server_info.active_game = Some(event.game)]
      [] event.type = "EndGame" -> [m EXCEPT !.server_info.active_game = None]
      [] event.type = "ClientConnected" ->
            [m EXCEPT !.server_info.connected_clients = MapInsert(@, event.info.id, event.info)]
      [] event.type = "ClientDisconnected" ->
            [m EXCEPT !.server_info.connected_clients = MapRemove(@, {event.id})]
      [] event.type = "MessageReceived" ->
            [m EXCEPT !.messages =
                Append(IF Len(@) >= MAX_MESSAGES_HISTORY THEN Tail(@) ELSE @,
                       [channel |-> event.channel, contents |-> event.contents,
                        from |-> event.from])]
      [] event.type = "FailedVote" -> m
      [] ~IsSome(m.server_info.active_game) -> m
      [] event.type = "VoteIssued" ->
            [m EXCEPT !.server_info.active_game =
                Some([game EXCEPT !.votes = MapInsert(@, event.voter, event.target)])]
      [] event.type = "SetCycle" ->
            [m EXCEPT !.server_info.active_game =
                Some([game EXCEPT !.current_cycle = event.cycle,
                                  !.day_num = event.day_num,
                                  !.cycle_start_time_unix_ts_secs = event.start_time_unix_ts_secs,
                                  !.cycle_duration_secs = event.duration_secs])]
      [] event.type = "PlayerKilled" ->
            [m EXCEPT !.server_info.active_game =
                Some([game EXCEPT !.player_status =
                        [p \in DOMAIN @ |-> IF p = event.player THEN "Dead" ELSE @[p]]])]
      [] event.type = "PlayerInvestigated" ->
            [m EXCEPT !.server_info.active_game =
                Some(IF event.allegiance = "Mafia"
                     THEN [game EXCEPT !.player_to_role = MapInsert(@, event.target, "Mafia")]
                     ELSE game)]
      [] event.type = "GameWon" ->
            [m EXCEPT !.server_info.active_game =
                Some([game EXCEPT !.player_to_role = event.player_to_role,
                                  !.winner = Some(event.side)])]

\* MafiaClient::apply_event
apply_event(m, event) ==
    LET game == Unwrap(m.server_info.active_game) IN
    CASE event.type = "SetServerInfo" ->
            [m EXCEPT !.server_info = [connected_clients |-> event.connected_clients,
                                       active_game |-> event.active_game]]
      [] event.type = "SetGame" -> [m EXCEPT !.server_info.active_game = Some(event.game)]
      [] event.type = "EndGame" -> [m EXCEPT !.server_info.active_game = None]
      [] event.type = "ClientConnected" ->
            [m EXCEPT !.server_info.connected_clients = MapInsert(@, event.info.id, event.info)]
      [] event.type = "ClientDisconnected" ->
            [m EXCEPT !.server_info.connected_clients = MapRemove(@, {event.id})]
      [] event.type = "MessageReceived" ->
            [m EXCEPT !.messages =
                Append(IF Len(@) >= MAX_MESSAGES_HISTORY THEN Tail(@) ELSE @,
                       [channel |-> event.channel, contents |-> event.contents,
                        from |-> event.from])]
      [] event.type = "FailedVote" -> m
      [] ~IsSome(m.server_info.active_game) -> m
      [] event.type = "VoteIssued" ->
            [m EXCEPT !.server_info.active_game =
                Some([game EXCEPT !.votes = MapInsert(@, event.voter, event.target)])]
      [] event.type = "SetCycle" ->
            [m EXCEPT !.server_info.active_game =
                Some([game EXCEPT !.current_cycle = event.cycle,
                                  !.day_num = event.day_num,
                                  !.cycle_start_time_unix_ts_secs = event.start_time_unix_ts_secs,
                                  !.cycle_duration_secs = event.duration_secs,
                                  !.votes = << >>])]
      [] event.type = "PlayerKilled" ->
            [m EXCEPT !.server_info.active_game =
                Some([game EXCEPT !.player_status =
                        [p \in DOMAIN @ |-> IF p = event.player THEN "Dead" ELSE @[p]]])]
      [] event.type = "PlayerInvestigated" ->
            [m EXCEPT !.server_info.active_game =
                Some(IF event.allegiance = "Mafia"
                     THEN [game EXCEPT !.player_to_role = MapInsert(@, event.target, "Mafia")]
                     ELSE game)]
      [] event.type = "GameWon" ->
            [m EXCEPT !.server_info.active_game =
                Some([game EXCEPT !.player_to_role = event.player_to_role,
                                  !.winner = Some(event.side)])]

\* The client's loop over a batch: apply_event for each event, in order.
RECURSIVE apply_events(_, _)
apply_events(m, events) ==
    IF events = << >> THEN m
    ELSE apply_events(apply_event(m, Head(events)), Tail(events))

\* The lobby with the mirror of each of its clients, built from the
\* SetServerInfo and ClientConnected events the client has drained.
InitMirror ==
    /\ clients = RegistryWith(MaxGamePlayers)
    /\ active_game = None
    /\ config \in ServerConfigs
    /\ now = 0
    /\ next_token = MaxGamePlayers
    /\ poisoned = FALSE
    /\ hist = [mirror |-> [id \in DOMAIN clients.clients |->
                    MafiaClientNew([connected_clients |->
                                        [c \in DOMAIN clients.clients |-> clients.clients[c].info],
                                    active_game |-> None])]]
              @@ [HistInit EXCEPT !.names_used = MaxGamePlayers]

\* One poll of a client: MafiaGameServer::take_events, then apply_event for
\* each event returned.
MirrorPoll(tok) ==
    /\ ~poisoned
    /\ LET a == auth_client_ret(clients, tok) IN
        IF a.res /= "Ok"
        THEN /\ poisoned' = (a.res = "Panic")
             /\ UNCHANGED <<clients, hist>>
        ELSE /\ a.id = NextToPoll(clients)
             /\ clients' = take_events_cs(auth_client_cs(clients, tok, now), Unwrap(a.id))
             /\ hist' = [hist EXCEPT !.mirror[Unwrap(a.id)] =
                            apply_events(@, take_events_ret(clients, Unwrap(a.id)))]
             /\ UNCHANGED poisoned
    /\ UNCHANGED <<active_game, config, now, next_token>>

NextMirror ==
    \/ AdvanceTime
    \/ \E id \in Ids : ForceDisconnectClient(id)
    \/ \E cfg \in LobbyConfigs : LobbyStartGame(cfg)
    \/ EndGame
    \/ DoTick
    \/ \E tok \in Tokens : MirrorPoll(tok)
    \/ \E tok \in Tokens, target \in Targets : CastVote(tok, target)

SpecMirror == InitMirror /\ [][NextMirror]_vars


(***************************************************************************)
(* The mirror against the server's game.                                   *)
(***************************************************************************)
\* The game the mirror of client c holds.
MirrorOf(c) == hist.mirror[c].server_info.active_game

\* The step is a poll in which the connected client c drains and applies a
\* batch of events.
Polled(c) ==
    /\ c \in DOMAIN clients.clients /\ c \in DOMAIN clients'.clients
    /\ ~clients.clients[c].disconnected
    /\ clients.clients[c].inbox /= << >>
    /\ clients'.clients[c].inbox = << >>

\* No event after place k of the batch replaces the mirror's game.
KeepsGameAfter(batch, k) ==
    \A j \in DOMAIN batch :
        j > k => batch[j].type \notin {"SetServerInfo", "SetGame", "EndGame"}

\* C39: for a client connected since before start_game whose inbox is drained
\* and applied, the mirror holds a game exactly when the server does, with the
\* server's current_cycle, day_num, player_status and winner, and every role
\* the mirror shows is the role the server holds for that player; applying a
\* SetCycle leaves only the votes issued after it, and applying a
\* PlayerInvestigated of allegiance Mafia leaves the target recorded as Mafia.
C39_MirrorRefines ==
    /\ [](\A c \in DOMAIN clients.clients :
            (~clients.clients[c].disconnected /\ clients.clients[c].inbox = << >>) =>
                IF ~IsSome(active_game) THEN MirrorOf(c) = None
                ELSE /\ IsSome(MirrorOf(c))
                     /\ LET m == Unwrap(MirrorOf(c))
                            g == Unwrap(active_game)
                        IN  /\ m.current_cycle = g.cycle
                            /\ m.day_num = g.day_num
                            /\ m.player_status = g.player_status
                            /\ m.winner = g.winner
                            /\ \A p \in DOMAIN m.player_to_role :
                                /\ p \in DOMAIN g.player_to_role
                                /\ m.player_to_role[p] = g.player_to_role[p])
    /\ [][\A c \in DOMAIN clients.clients :
            (Polled(c) /\ IsSome(hist'.mirror[c].server_info.active_game)) =>
                LET batch == clients.clients[c].inbox
                    m == Unwrap(hist'.mirror[c].server_info.active_game)
                IN  \A k \in DOMAIN batch :
                        KeepsGameAfter(batch, k) =>
                            /\ batch[k].type = "SetCycle" =>
                                DOMAIN m.votes \subseteq
                                    {batch[j].voter :
                                        j \in {x \in DOMAIN batch :
                                                x > k /\ batch[x].type = "VoteIssued"}}
                            /\ (batch[k].type = "PlayerInvestigated"
                                    /\ batch[k].allegiance = "Mafia") =>
                                /\ batch[k].target \in DOMAIN m.player_to_role
                                /\ m.player_to_role[batch[k].target] = "Mafia"
      ]_vars

\* The Detective's mirror is up to date on the day after the first night and
\* shows as Mafia a player the Detective has investigated.
C39_Witness ==
    /\ IsSome(active_game)
    /\ \E c \in DOMAIN clients.clients :
        /\ ~clients.clients[c].disconnected
        /\ clients.clients[c].inbox = << >>
        /\ get_player_role(Unwrap(active_game), c) = Some("Detective")
        /\ get_player_status(Unwrap(active_game), c) = Some("Alive")
        /\ IsSome(MirrorOf(c))
        /\ Unwrap(MirrorOf(c)).current_cycle = "Day"
        /\ Unwrap(MirrorOf(c)).winner = None
        /\ \E p \in DOMAIN Unwrap(MirrorOf(c)).player_to_role :
            p /= c /\ Unwrap(MirrorOf(c)).player_to_role[p] = "Mafia"


(***************************************************************************)
(* The ticker thread of start_server_ticker and its shutdown flag.  The    *)
(* flag is one atomic location: a load returns the value of the latest     *)
(* store to it.                                                            *)
(***************************************************************************)
\* A ticker that never sees the flag set.
is_shutdown_never(flag) == FALSE

\* TickerShutdown::is_shutdown
is_shutdown(flag) == flag

\* The thread spawned by start_server_ticker is about to check the flag; the
\* flag is clear (TickerShutdown::new); no do_tick has begun after a shutdown.
TickerNew == [pc |-> "check", shutdown |-> FALSE, late |-> 0]

\* A server with three connected clients in the lobby, whose ticker has just
\* been started.
InitTicker ==
    /\ clients = RegistryWith(MaxGamePlayers)
    /\ active_game = None
    /\ config \in ServerConfigs
    /\ now = 0
    /\ next_token = MaxGamePlayers
    /\ poisoned = FALSE
    /\ hist = [ticker |-> TickerNew]
              @@ [HistInit EXCEPT !.names_used = MaxGamePlayers]

\* TickerShutdown::do_shutdown
DoShutdown ==
    /\ ~hist.ticker.shutdown
    /\ hist' = [hist EXCEPT !.ticker.shutdown = TRUE]
    /\ UNCHANGED <<clients, active_game, config, now, next_token, poisoned>>

\* The head of the loop: `if shutdown.is_shutdown() { return; }`.
TickerCheck ==
    /\ hist.ticker.pc = "check"
    /\ hist' = [hist EXCEPT !.ticker.pc =
                    IF is_shutdown(hist.ticker.shutdown) THEN "returned" ELSE "tick"]
    /\ UNCHANGED <<clients, active_game, config, now, next_token, poisoned>>

\* `server.do_tick()` in the loop: MafiaGameServer::do_tick, whole (on a
\* poisoned lock the unwrap panics and the thread ends).
TickerDoTick ==
    /\ hist.ticker.pc = "tick"
    /\ LET tk == [hist.ticker EXCEPT
                    !.pc = "sleep",
                    !.late = IF hist.ticker.shutdown THEN @ + 1 ELSE @]
       IN
       IF poisoned
       THEN /\ hist' = [hist EXCEPT !.ticker.pc = "panicked"]
            /\ UNCHANGED <<clients, active_game>>
       ELSE IF IsSome(active_game)
       THEN LET g == Unwrap(active_game) IN
            \E pick \in find_picks(g) :
            LET r == poll_end_cycle(g, pick, now) IN
            \E msg \in batch_death_messages(config, r.events) :
            /\ active_game' = Some(r.game)
            /\ clients' = server_send_events(clients, Some(r.game), config, r.events, msg)
            /\ hist' = [HistCycle(hist, g, r.game, now) EXCEPT !.ticker = tk]
       ELSE /\ clients' \in inner_purge_results(clients, config, now)
            /\ hist' = [hist EXCEPT !.ticker = tk]
            /\ UNCHANGED active_game
    /\ UNCHANGED <<config, now, next_token, poisoned>>

\* `thread::sleep(tick_rate)`, then the next iteration.
TickerSleep ==
    /\ hist.ticker.pc = "sleep"
    /\ hist' = [hist EXCEPT !.ticker.pc = "check"]
    /\ UNCHANGED <<clients, active_game, config, now, next_token, poisoned>>

NextTicker ==
    \/ AdvanceTime
    \/ \E id \in Ids : ForceDisconnectClient(id)
    \/ \E tok \in Tokens : TakeEvents(tok)
    \/ DoShutdown
    \/ TickerCheck
    \/ TickerDoTick
    \/ TickerSleep

\* The ticker thread is scheduled again and again, and do_tick gets the lock.
SpecTicker ==
    /\ InitTicker /\ [][NextTicker]_vars
    /\ WF_vars(TickerCheck) /\ WF_vars(TickerDoTick) /\ WF_vars(TickerSleep)

\* C40: after do_shutdown at most one more do_tick begins, one whose flag
\* check came before the shutdown; a shutdown is followed by the return of
\* the thread; until then every iteration checks the flag, calls do_tick once
\* and sleeps, and the thread calls do_tick again and again as long as no
\* shutdown is requested.
C40_TickerStops ==
    /\ [](hist.ticker.late <= 1)
    /\ [][(hist'.ticker.late > hist.ticker.late) => hist.ticker.pc = "tick"]_vars
    /\ [][hist'.ticker.pc /= hist.ticker.pc =>
            \/ hist.ticker.pc = "check" /\ hist'.ticker.pc = "tick" /\ ~hist.ticker.shutdown
            \/ hist.ticker.pc = "check" /\ hist'.ticker.pc = "returned" /\ hist.ticker.shutdown
            \/ hist.ticker.pc = "tick" /\ hist'.ticker.pc = "sleep"
            \/ hist.ticker.pc = "sleep" /\ hist'.ticker.pc = "check"]_vars
    /\ (hist.ticker.shutdown ~> hist.ticker.pc = "returned")
    /\ []<>(hist.ticker.shutdown \/ hist.ticker.pc = "tick")

\* The thread has returned after a do_tick that began after the shutdown.
C40_Witness ==
    /\ hist.ticker.shutdown
    /\ hist.ticker.pc = "returned"
    /\ hist.ticker.late = 1

====
